---------------------------- MODULE Spec2Model ----------------------------
(***************************************************************************)
(* Model of the IfyApi bot toolkit: the command registry (command.ts), the *)
(* bot lifecycle manager (setup.ts), the button/page builders and the      *)
(* platform executor (button.ts).                                          *)
(*                                                                         *)
(* A JavaScript string is a sequence of one-character strings, so that     *)
(* toLowerCase / toUpperCase are computed character by character.  A       *)
(* template string is the sequence of its pieces.                          *)
(***************************************************************************)
EXTENDS Integers, Sequences, FiniteSets, TLC

VARIABLES
    commands,      \* CommandRegistry.commands: Map<string, Command>, in insertion order
    registered,    \* history: every command passed to register(), in call order
    enabled,       \* platforms with enabled = true in the loaded configuration
    botInstances,  \* setup.ts botInstances: Record<string, BotInstance>, in key order
    runningBots,   \* setup.ts runningBots: Set<Platform>, in insertion order
    handles,       \* the BotInstance objects still referred to, by object identity
    tasks,         \* per caller: the lifecycle call in flight (or the last one returned)
    cpu,           \* the call now running synchronously, 0 when the event loop is idle
    pages,         \* PageBuilder.pages: Map<string, Page>, in insertion order
    ex,            \* the PlatformExecutor.execute call in flight (or the last one ended)
    log,           \* what that call has done so far: callbacks invoked, console lines
    builder,       \* a ButtonBuilder: its button object and the methods called on it
    lastCall,      \* the last ButtonBuilder method called and how it ended
    pobjs,         \* the page object of every PageBuilder constructed, by builder
    lastPage,      \* the PageBuilder.build() call that has just ended, if any
    configPlatforms, \* button.ts platforms: the frozen copy of config.platforms
    helpOut,       \* the string showHelp has just returned, until the next call
    sendCall       \* the sendMessage call in flight (or the last one returned)

regVars == <<commands, registered>>

botVars == <<enabled, botInstances, runningBots, handles, tasks, cpu>>

uiVars == <<pages, ex, log, builder, lastCall>>

moreVars == <<pobjs, lastPage, configPlatforms, helpOut, sendCall>>

vars ==
    <<commands, registered, enabled, botInstances, runningBots, handles, tasks, cpu,
      pages, ex, log, builder, lastCall, pobjs, lastPage, configPlatforms, helpOut,
      sendCall>>

(***************************************************************************)
(* Bounds and input sets                                                   *)
(***************************************************************************)
MaxRegs == 3

\* the value of a missing Map entry / an unset optional field
Undefined == [undefined |-> TRUE]

CmdNames == { <<"a">>, <<"A">>, <<"b">> }

AliasLists == { <<>>, << <<"B">> >>, << <<"a">>, <<"b">> >> }

LookupKeys == { <<"a">>, <<"A">>, <<"b">>, <<"B">>, <<"c">> }

(***************************************************************************)
(* Strings                                                                 *)
(***************************************************************************)
LowerChar(c) ==
    CASE c = "A" -> "a"
      [] c = "B" -> "b"
      [] c = "C" -> "c"
      [] c = "E" -> "e"
      [] c = "R" -> "r"
      [] c = "T" -> "t"
      [] c = "U" -> "u"
      [] c = "X" -> "x"
      [] OTHER -> c

toLowerCase(s) == [i \in 1..Len(s) |-> LowerChar(s[i])]

(***************************************************************************)
(* Map<string, Command>: a sequence of entries in insertion order.         *)
(* set() on a present key keeps the entry's position and replaces its      *)
(* value; on an absent key it appends.                                     *)
(***************************************************************************)
MapHas(m, k) == \E i \in 1..Len(m) : m[i].key = k

MapGet(m, k) ==
    IF MapHas(m, k)
    THEN m[CHOOSE i \in 1..Len(m) : m[i].key = k].val
    ELSE Undefined

MapSet(m, k, v) ==
    IF MapHas(m, k)
    THEN [i \in 1..Len(m) |-> IF m[i].key = k THEN [key |-> k, val |-> v] ELSE m[i]]
    ELSE Append(m, [key |-> k, val |-> v])

(***************************************************************************)
(* CommandRegistry                                                         *)
(***************************************************************************)
\* mutant: the aliases are stored as written
RECURSIVE SetAliasesAsWritten(_, _, _, _)
SetAliasesAsWritten(m, aliases, i, command) ==
    IF i > Len(aliases) THEN m
    ELSE SetAliasesAsWritten(MapSet(m, aliases[i], command), aliases, i + 1, command)

\* command.aliases.forEach(alias => this.commands.set(alias.toLowerCase(), command))
RECURSIVE SetAliases(_, _, _, _)
SetAliases(m, aliases, i, command) ==
    IF i > Len(aliases) THEN m
    ELSE SetAliases(MapSet(m, toLowerCase(aliases[i]), command), aliases, i + 1, command)

\* mutant: a command that takes over a name takes over every key of its owner
registerMapEvicting(m, command) ==
    LET old == MapGet(m, toLowerCase(command.name))
        kept == SelectSeq(m, LAMBDA entry : entry.val # old)
    IN  SetAliases(MapSet(kept, toLowerCase(command.name), command),
                   command.aliases, 1, command)

\* register(command): the primary name, then every alias, all lowercased
registerMap(m, command) ==
    SetAliases(MapSet(m, toLowerCase(command.name), command), command.aliases, 1, command)

getCommand(name) == MapGet(commands, toLowerCase(name))

Register(command) ==
    /\ Len(registered) < MaxRegs
    /\ commands' = registerMap(commands, command)
    /\ registered' = Append(registered, command)
    /\ helpOut' = [ options |-> Undefined, text |-> <<>> ]
    /\ UNCHANGED <<botVars, uiVars, pobjs, lastPage, configPlatforms, sendCall>>

\* a fresh command object: its identity is the number of the register call
NewCommands ==
    { [id |-> Len(registered) + 1, name |-> n, aliases |-> al,
       showInHelp |-> h, showInList |-> l] :
        n \in CmdNames, al \in AliasLists, h \in BOOLEAN, l \in BOOLEAN }

RegNext == \E command \in NewCommands : Register(command)

(***************************************************************************)
(* Bot lifecycle manager (setup.ts)                                        *)
(*                                                                         *)
(* Every exported function is async: it runs synchronously from its call   *)
(* (or from the resumption of an await) to its next await or its return.   *)
(* cpu names the call that is running; a call suspended at an await waits  *)
(* with cpu = 0 and any suspended call may be resumed next.                *)
(*                                                                         *)
(* handles holds the BotInstance objects that are still referenced, by     *)
(* botInstances or by a call's local variable; an object nothing refers to *)
(* any more is dropped, as the garbage collector drops it.                 *)
(***************************************************************************)
\* a handle's stop() rejects at most this many times
MaxStopFailures == 1

Platforms == { "discord", "telegram" }

\* Object.entries(cfg.platforms): the key order of DEFAULT_CONFIG.platforms
ConfigOrder == << "discord", "telegram" >>

EnabledChoices == { {"discord", "telegram"}, {"telegram"} }

PlatformLists == { <<"telegram">>, <<"discord", "telegram">> }

Slots == { 1, 2 }

\* error.message of a rejected bot.start() / bot.stop()
Reasons == { "ECONNRESET" }

StartKinds == { "startBot", "restartBot" }

\* Set<Platform>: a duplicate-free sequence in insertion order
SetHas(s, x) == \E i \in 1..Len(s) : s[i] = x

SetAdd(s, x) == IF SetHas(s, x) THEN s ELSE Append(s, x)

SetDelete(s, x) == SelectSeq(s, LAMBDA y : y # x)

\* delete obj[k]
MapDelete(m, k) == SelectSeq(m, LAMBDA e : e.key # k)

\* Object.keys(obj)
MapKeys(m) == [i \in 1..Len(m) |-> m[i].key]

MapValues(m) == { m[i].val : i \in 1..Len(m) }

\* result strings (template literals: literal pieces alternate with values)
NotSupportedMsg(plat) == << "Platform '", plat, "' is not supported" >>

AlreadyRunningMsg(plat) == << "Bot for ", plat, " is already running" >>

StartedMsg(plat) == << "", plat, " bot started successfully" >>

FailedStartMsg(plat, reason) == << "Failed to start ", plat, " bot: ", reason >>

NoRunningMsg(plat) == << "No running bot found for ", plat >>

StoppedMsg(plat) == << "", plat, " bot stopped successfully" >>

InstanceNotFoundMsg(plat) == << "Bot instance not found for ", plat >>

FailedStopMsg(plat, reason) == << "Failed to stop ", plat, " bot: ", reason >>

NoBotsMsg == << "No running bots to shut down" >>

\* getSupportedPlatforms(): the enabled platforms, in configuration key order
getSupportedPlatforms == SelectSeq(ConfigOrder, LAMBDA plat : plat \in enabled)

NoHandles == [ h \in {} |-> h ]

NoSnapshot == [ running |-> <<>>, instances |-> <<>>, handles |-> NoHandles ]

IdleTask ==
    [ kind |-> "none", platforms |-> <<>>, pc |-> "idle", i |-> 1, results |-> <<>>,
      supportedPlatforms |-> <<>>, bot |-> 0, replaced |-> 0,
      olap |-> 0, snap |-> NoSnapshot, hist |-> <<>> ]

InFlight(t) == tasks[t].pc # "idle"

\* history: what the caller could observe when it made the call; it is kept for as
\* long as no other call has been in flight together with this one
Snapshot == [ running |-> runningBots, instances |-> botInstances, handles |-> handles ]

OlapLevel(kind) == IF kind \in StartKinds THEN 2 ELSE 1

Max2(a, b) == IF a >= b THEN a ELSE b

\* history: olap = 0 when no other call was in flight while this one was, 1 when
\* only stop-type calls were, 2 when a start-type call was
OlapOfNew(t) ==
    LET others == { u \in Slots \ {t} : InFlight(u) }
    IN  IF others = {} THEN 0
        ELSE IF \E u \in others : tasks[u].kind \in StartKinds THEN 2 ELSE 1

NewTask(t, kind, platforms, pc) ==
    [ IdleTask EXCEPT !.kind = kind, !.platforms = platforms, !.pc = pc,
                      !.olap = OlapOfNew(t),
                      !.snap = IF OlapOfNew(t) = 0 THEN Snapshot ELSE NoSnapshot ]

\* the task table after caller t makes a call: the calls in flight have met it
Called(t, task) ==
    [ u \in Slots |->
        IF u = t THEN task
        ELSE IF InFlight(u)
             THEN [ tasks[u] EXCEPT !.olap = Max2(@, OlapLevel(task.kind)),
                                    !.snap = NoSnapshot, !.hist = <<>> ]
             ELSE tasks[u] ]

\* history: the outcome of a bot.start() or bot.stop() this call awaited, kept like
\* the snapshot for as long as no other call has been in flight together with it
Outcome(task, op, plat, ok) ==
    IF task.olap = 0 THEN Append(task.hist, [ op |-> op, plat |-> plat, ok |-> ok ])
    ELSE <<>>

CanCall(t) ==
    /\ cpu = 0
    /\ ~InFlight(t)

\* the handles that botInstances inst or a local variable of a call in ts refers to
Referenced(ts, inst) ==
    (MapValues(inst) \cup { ts[t].bot : t \in Slots } \cup { ts[t].replaced : t \in Slots })
        \ {0}

\* the handles hs without those nothing refers to
Collect(hs, ts, inst) ==
    [ h \in DOMAIN hs \cap Referenced(ts, inst) |-> hs[h] ]

\* the identity of a new object: one that no handle and no snapshot carries
NewHandle ==
    LET used == DOMAIN handles
                \cup UNION { DOMAIN tasks[t].snap.handles : t \in Slots }
    IN  CHOOSE h \in 1..(Cardinality(used) + 1) : h \notin used

\* hs with the new object h
WithHandle(hs, h, rec) == [ g \in DOMAIN hs \cup {h} |-> IF g = h THEN rec ELSE hs[g] ]

(*------------------------------ startBot --------------------------------*)
\* startBot(...platforms) is called: it suspends at await getSupportedPlatforms()
CallStartBot(t, platforms) ==
    /\ CanCall(t)
    /\ tasks' = Called(t, NewTask(t, "startBot", platforms, "getSupported"))
    /\ UNCHANGED <<moreVars, uiVars, commands, registered, enabled, botInstances, runningBots, handles, cpu>>

\* await getSupportedPlatforms() resumes
ResumeSupported(t) ==
    /\ cpu = 0
    /\ tasks[t].pc = "getSupported"
    /\ tasks' = [ tasks EXCEPT ![t].supportedPlatforms = getSupportedPlatforms,
                               ![t].pc = "startLoop" ]
    /\ cpu' = t
    /\ UNCHANGED <<moreVars, uiVars, commands, registered, enabled, botInstances, runningBots, handles>>

\* mutant: startBot without its already-running check
StartVerdictNoRunningCheck(task, plat) ==
    IF ~SetHas(task.supportedPlatforms, plat) THEN "unsupported"
    ELSE "start"

\* the checks at the head of startBot's loop body
StartVerdict(task, plat) ==
    IF ~SetHas(task.supportedPlatforms, plat) THEN "unsupported"
    ELSE IF SetHas(runningBots, plat) THEN "running"
    ELSE "start"

\* mutant: a failure ends the loop
AfterCatchAbort(task) == Len(task.platforms) + 1

\* the index of the iteration that follows a catch block
AfterCatch(task) == task.i + 1

\* mutant: the platform is added to the running set before bot.start() is awaited
RunningAfterFailedStartEager(plat) == SetAdd(runningBots, plat)

\* the running set after bot.start() rejected: runningBots.add comes after the await
RunningAfterFailedStart(plat) == runningBots

\* one iteration of startBot's for loop up to its first await, or the return
StartLoop(t) ==
    LET task == tasks[t]
        plat == task.platforms[task.i]
    IN
    /\ cpu = t
    /\ task.pc = "startLoop"
    /\ IF task.i > Len(task.platforms)
       THEN /\ tasks' = [ tasks EXCEPT ![t].pc = "done", ![t].replaced = 0 ]
            /\ cpu' = t
       ELSE IF StartVerdict(task, plat) = "unsupported"
       THEN /\ tasks' = [ tasks EXCEPT
                            ![t].results = Append(@, NotSupportedMsg(plat)),
                            ![t].i = @ + 1, ![t].replaced = 0 ]
            /\ cpu' = t
       ELSE IF StartVerdict(task, plat) = "running"
       THEN /\ tasks' = [ tasks EXCEPT
                            ![t].results = Append(@, AlreadyRunningMsg(plat)),
                            ![t].i = @ + 1, ![t].replaced = 0 ]
            /\ cpu' = t
       ELSE \* await createBotInstance(plat), which awaits getConfig()
            /\ tasks' = [ tasks EXCEPT ![t].pc = "createBot", ![t].replaced = 0 ]
            /\ cpu' = 0
    /\ handles' = Collect(handles, tasks', botInstances)
    /\ UNCHANGED <<moreVars, uiVars, commands, registered, enabled, botInstances, runningBots>>

\* createBotInstance constructs the handle and startBot calls bot.start() on it
ResumeCreate(t) ==
    LET task == tasks[t]
        plat == task.platforms[task.i]
    IN
    /\ cpu = 0
    /\ task.pc = "createBot"
    /\ handles' = WithHandle(handles, NewHandle,
                             [ platform |-> plat, starts |-> 1, started |-> FALSE,
                               stops |-> 0, stopFailures |-> 0 ])
    /\ tasks' = [ tasks EXCEPT ![t].bot = NewHandle, ![t].pc = "botStart" ]
    /\ UNCHANGED <<moreVars, uiVars, commands, registered, enabled, botInstances, runningBots, cpu>>

\* mutant: the assignment keeps the handle the platform already has
InstancesAfterStartKeepFirst(plat, bot) ==
    IF MapHas(botInstances, plat) THEN botInstances ELSE MapSet(botInstances, plat, bot)

\* botInstances.set(platform, bot)
InstancesAfterStart(plat, bot) == MapSet(botInstances, plat, bot)

\* await bot.start() resolves: the handle is registered
StartResolved(t) ==
    LET task == tasks[t]
        plat == task.platforms[task.i]
    IN
    /\ cpu = 0
    /\ task.pc = "botStart"
    /\ botInstances' = InstancesAfterStart(plat, task.bot)
    /\ runningBots' = SetAdd(runningBots, plat)
    /\ tasks' = [ tasks EXCEPT
                    ![t].results = Append(@, StartedMsg(plat)),
                    ![t].i = @ + 1, ![t].pc = "startLoop", ![t].bot = 0,
                    ![t].hist = Outcome(task, "start", plat, TRUE),
                    \* history: the handle this assignment removed from botInstances
                    ![t].replaced = IF MapHas(botInstances, plat)
                                    THEN MapGet(botInstances, plat) ELSE 0 ]
    /\ handles' = Collect([ handles EXCEPT ![task.bot].started = TRUE ],
                          tasks', botInstances')
    /\ cpu' = t
    /\ UNCHANGED <<moreVars, uiVars, commands, registered, enabled>>

\* await bot.start() rejects: the catch block records the failure
StartRejected(t, reason) ==
    LET task == tasks[t]
        plat == task.platforms[task.i]
    IN
    /\ cpu = 0
    /\ task.pc = "botStart"
    /\ tasks' = [ tasks EXCEPT ![t].results = Append(@, FailedStartMsg(plat, reason)),
                               ![t].i = AfterCatch(task), ![t].pc = "startLoop",
                               ![t].bot = 0,
                               ![t].hist = Outcome(task, "start", plat, FALSE) ]
    /\ runningBots' = RunningAfterFailedStart(plat)
    /\ handles' = Collect(handles, tasks', botInstances)
    /\ cpu' = t
    /\ UNCHANGED <<moreVars, uiVars, commands, registered, enabled, botInstances>>

(*------------------------------- stopBot --------------------------------*)
\* stopBot(...platforms) is called: it runs synchronously into its loop
CallStopBot(t, platforms) ==
    /\ CanCall(t)
    /\ tasks' = Called(t, NewTask(t, "stopBot", platforms, "stopLoop"))
    /\ cpu' = t
    /\ UNCHANGED <<moreVars, uiVars, commands, registered, enabled, botInstances, runningBots, handles>>

\* what follows the return of the stopBot a call was running
AfterStopBot(kind) ==
    CASE kind = "restartBot" -> "restartAwait"
      [] kind = "stopAllBots" -> "stopAllAwait"
      [] OTHER -> "done"

\* mutant: stopBot without its not-running check
StopVerdictNoRunningCheck(plat) ==
    IF MapHas(botInstances, plat) THEN "stop"
    ELSE "noInstance"

\* the checks at the head of stopBot's loop body
StopVerdict(plat) ==
    IF ~SetHas(runningBots, plat) THEN "notRunning"
    ELSE IF MapHas(botInstances, plat) THEN "stop"
    ELSE "noInstance"

\* mutant: runningBots.delete is forgotten
RunningAfterStopKept(plat) == runningBots

\* the running set after stopBot has stopped plat
RunningAfterStop(plat) == SetDelete(runningBots, plat)

\* one iteration of stopBot's for loop up to its await, or the return
StopLoop(t) ==
    LET task == tasks[t]
        plat == task.platforms[task.i]
        bot == MapGet(botInstances, plat)
    IN
    /\ cpu = t
    /\ task.pc = "stopLoop"
    /\ IF task.i > Len(task.platforms)
       THEN /\ tasks' = [ tasks EXCEPT ![t].pc = AfterStopBot(task.kind) ]
            /\ cpu' = IF AfterStopBot(task.kind) = "done" THEN t ELSE 0
            /\ UNCHANGED handles
       ELSE IF StopVerdict(plat) = "notRunning"
       THEN /\ tasks' = [ tasks EXCEPT
                            ![t].results = Append(@, NoRunningMsg(plat)),
                            ![t].i = @ + 1 ]
            /\ cpu' = t
            /\ UNCHANGED handles
       ELSE IF StopVerdict(plat) = "stop"
       THEN \* await bot.stop()
            /\ handles' = [ handles EXCEPT ![bot].stops = @ + 1 ]
            /\ tasks' = [ tasks EXCEPT ![t].bot = bot, ![t].pc = "botStop" ]
            /\ cpu' = 0
       ELSE /\ tasks' = [ tasks EXCEPT
                            ![t].results = Append(@, InstanceNotFoundMsg(plat)),
                            ![t].i = @ + 1 ]
            /\ cpu' = t
            /\ UNCHANGED handles
    /\ UNCHANGED <<moreVars, uiVars, commands, registered, enabled, botInstances, runningBots>>

\* mutant: the entry of the stopped platform is kept
InstancesAfterStopKept(plat) == botInstances

\* delete botInstances[plat]
InstancesAfterStop(plat) == MapDelete(botInstances, plat)

\* await bot.stop() resolves: the handle is removed
StopResolved(t) ==
    LET task == tasks[t]
        plat == task.platforms[task.i]
    IN
    /\ cpu = 0
    /\ task.pc = "botStop"
    /\ botInstances' = InstancesAfterStop(plat)
    /\ runningBots' = RunningAfterStop(plat)
    /\ tasks' = [ tasks EXCEPT ![t].results = Append(@, StoppedMsg(plat)),
                               ![t].i = @ + 1, ![t].pc = "stopLoop", ![t].bot = 0,
                               ![t].hist = Outcome(task, "stop", plat, TRUE) ]
    /\ handles' = Collect(handles, tasks', botInstances')
    /\ cpu' = t
    /\ UNCHANGED <<moreVars, uiVars, commands, registered, enabled>>

\* mutant: a platform whose stop() failed is taken out of the running set
RunningAfterFailedStopDropped(plat) == SetDelete(runningBots, plat)

\* the running set after bot.stop() rejected: the catch block does not touch it
RunningAfterFailedStop(plat) == runningBots

\* await bot.stop() rejects: the catch block records the failure
StopRejected(t, reason) ==
    LET task == tasks[t]
        plat == task.platforms[task.i]
    IN
    /\ cpu = 0
    /\ task.pc = "botStop"
    /\ handles[task.bot].stopFailures < MaxStopFailures
    /\ tasks' = [ tasks EXCEPT ![t].results = Append(@, FailedStopMsg(plat, reason)),
                               ![t].i = AfterCatch(task), ![t].pc = "stopLoop",
                               ![t].bot = 0,
                               ![t].hist = Outcome(task, "stop", plat, FALSE) ]
    /\ handles' = Collect([ handles EXCEPT ![task.bot].stopFailures = @ + 1 ],
                          tasks', botInstances)
    /\ cpu' = t
    /\ runningBots' = RunningAfterFailedStop(plat)
    /\ UNCHANGED <<moreVars, uiVars, commands, registered, enabled, botInstances>>

(*------------------------------ restartBot ------------------------------*)
\* restartBot(...platforms) is called: it calls stopBot and awaits it
CallRestartBot(t, platforms) ==
    /\ CanCall(t)
    /\ tasks' = Called(t, NewTask(t, "restartBot", platforms, "stopLoop"))
    /\ cpu' = t
    /\ UNCHANGED <<moreVars, uiVars, commands, registered, enabled, botInstances, runningBots, handles>>

\* await stopBot(...) resumes: its results are dropped and startBot is called
ResumeRestart(t) ==
    /\ cpu = 0
    /\ tasks[t].pc = "restartAwait"
    /\ tasks' = [ tasks EXCEPT ![t].results = <<>>, ![t].i = 1,
                               ![t].pc = "getSupported" ]
    /\ UNCHANGED <<moreVars, uiVars, commands, registered, enabled, botInstances, runningBots, handles, cpu>>

(*------------------------------- shutdown -------------------------------*)
\* shutdown() is called: stopBot on the running set, or the no-op result
CallShutdown(t) ==
    LET platforms == runningBots
    IN
    /\ CanCall(t)
    /\ IF Len(platforms) = 0
       THEN /\ tasks' = Called(t, [ NewTask(t, "shutdown", platforms, "done")
                                      EXCEPT !.results = << NoBotsMsg >> ])
            /\ cpu' = t
       ELSE /\ tasks' = Called(t, NewTask(t, "shutdown", platforms, "stopLoop"))
            /\ cpu' = t
    /\ UNCHANGED <<moreVars, uiVars, commands, registered, enabled, botInstances, runningBots, handles>>

(*------------------------------ stopAllBots -----------------------------*)
\* stopAllBots() is called: stopBot on the keys of botInstances, if there are any
CallStopAllBots(t) ==
    LET platforms == MapKeys(botInstances)
    IN
    /\ CanCall(t)
    /\ IF Len(platforms) > 0
       THEN tasks' = Called(t, NewTask(t, "stopAllBots", platforms, "stopLoop"))
       ELSE tasks' = Called(t, NewTask(t, "stopAllBots", platforms, "done"))
    /\ cpu' = t
    /\ UNCHANGED <<moreVars, uiVars, commands, registered, enabled, botInstances, runningBots, handles>>

\* await stopBot(...) resumes: stopAllBots returns nothing
ResumeStopAll(t) ==
    /\ cpu = 0
    /\ tasks[t].pc = "stopAllAwait"
    /\ tasks' = [ tasks EXCEPT ![t].results = <<>>, ![t].pc = "done" ]
    /\ cpu' = t
    /\ UNCHANGED <<moreVars, uiVars, commands, registered, enabled, botInstances, runningBots, handles>>

(*-------------------------------- return -------------------------------*)
\* the call returns its results (resolves its promise) and its frame is gone
Return(t) ==
    /\ cpu = t
    /\ tasks[t].pc = "done"
    /\ tasks' = [ tasks EXCEPT ![t] = IdleTask ]
    /\ cpu' = 0
    /\ UNCHANGED <<moreVars, uiVars, commands, registered, enabled, botInstances, runningBots, handles>>

BotNext ==
    \E t \in Slots :
        \/ \E platforms \in PlatformLists : CallStartBot(t, platforms)
        \/ ResumeSupported(t)
        \/ StartLoop(t)
        \/ ResumeCreate(t)
        \/ StartResolved(t)
        \/ \E reason \in Reasons : StartRejected(t, reason)
        \/ \E platforms \in PlatformLists : CallStopBot(t, platforms)
        \/ StopLoop(t)
        \/ StopResolved(t)
        \/ \E reason \in Reasons : StopRejected(t, reason)
        \/ \E platforms \in PlatformLists : CallRestartBot(t, platforms)
        \/ ResumeRestart(t)
        \/ CallShutdown(t)
        \/ CallStopAllBots(t)
        \/ ResumeStopAll(t)
        \/ Return(t)

(***************************************************************************)
(* Buttons, pages and the platform executor (button.ts)                    *)
(*                                                                         *)
(* An optional field is <<>> when it is undefined and <<v>> when it holds  *)
(* v.  A console.log line is the sequence of the pieces of its template.   *)
(***************************************************************************)
MaxButtons == 2

None == <<>>

Some(v) == << v >>

\* JavaScript truthiness of an optional string or function: undefined and "" are falsy
Truthy(opt) == opt # None /\ opt[1] # ""

NoStyle == [ primary |-> FALSE, secondary |-> FALSE, danger |-> FALSE ]

\* the buttons that pages are made of
PageButtons ==
    { [ text |-> "Open", platforms |-> <<"telegram", "discord">>,
        style |-> [ NoStyle EXCEPT !.primary = TRUE ],
        action |-> None, nextPage |-> Some("home"), command |-> None ],
      [ text |-> "Pin", platforms |-> <<"telegram">>,
        style |-> [ NoStyle EXCEPT !.primary = TRUE, !.danger = TRUE ],
        action |-> Some("fn"), nextPage |-> None, command |-> None ],
      [ text |-> "Kick", platforms |-> <<"discord">>,
        style |-> [ NoStyle EXCEPT !.secondary = TRUE ],
        action |-> None, nextPage |-> None, command |-> Some("kick") ] }

RECURSIVE SeqsUpTo(_, _)
\* the sequences over S of length at most n
SeqsUpTo(S, n) ==
    IF n = 0 THEN { <<>> }
    ELSE LET shorter == SeqsUpTo(S, n - 1)
         IN  shorter \cup { Append(s, x) : s \in { s \in shorter : Len(s) = n - 1 }, x \in S }

\* the names a page is published under
PageNames == { "home" }

PageContents == { "Welcome" }

\* the buttons execute is called with: every combination of the three effects
ExecButtons ==
    { [ text |-> "Go", platforms |-> <<"telegram", "discord">>, style |-> NoStyle,
        action |-> a, nextPage |-> n, command |-> c ] :
        a \in { None, Some("fn") },
        n \in { None, Some(""), Some("home"), Some("gone") },
        c \in { None, Some(""), Some("ping") } }

\* platform.toUpperCase()
toUpperCase(platform) ==
    CASE platform = "discord" -> "DISCORD"
      [] platform = "telegram" -> "TELEGRAM"
      [] OTHER -> platform

\* `${n}` for a small positive number
NumStr(n) == << "1", "2", "3", "4", "5", "6", "7", "8", "9" >>[n]

\* btn.platforms.includes(platform)
Includes(platforms, platform) == \E i \in 1..Len(platforms) : platforms[i] = platform

\* mutant: every button of the page is shown, whatever its platforms
platformButtonsUnfiltered(page, platform) == page.buttons

\* page.buttons.filter(btn => btn.platforms.includes(platform))
platformButtons(page, platform) ==
    SelectSeq(page.buttons, LAMBDA btn : Includes(btn.platforms, platform))

\* [primary ? 'primary' : '', danger ? 'danger' : ''].filter(Boolean).join(' ')
styles(btn) ==
    CASE btn.style.primary /\ btn.style.danger -> << "primary", " ", "danger" >>
      [] btn.style.primary -> << "primary" >>
      [] btn.style.danger -> << "danger" >>
      [] OTHER -> <<>>

\* `${index + 1}. ${btn.text}${styles ? ` (${styles})` : ''}`
ButtonLine(btn, index) ==
    [ kind |-> "button",
      text |-> << NumStr(index + 1), ". ", btn.text >>
                \o (IF styles(btn) # <<>> THEN << " (" >> \o styles(btn) \o << ")" >>
                    ELSE <<>>) ]

\* `[${platform.toUpperCase()}] ${page.content}`
ContentLine(platform, page) ==
    [ kind |-> "content", text |-> << "[", toUpperCase(platform), "] ", page.content >> ]

\* showPage after its onEnter: the content line, then platformButtons.forEach
ShowLines(platform, page) ==
    LET shown == platformButtons(page, platform)
    IN  << ContentLine(platform, page) >>
            \o [ k \in 1..Len(shown) |-> ButtonLine(shown[k], k - 1) ]

\* `[${platform}] Executing command: ${button.command}`
CommandLine(platform, button) ==
    [ kind |-> "command",
      text |-> << "[", platform, "] Executing command: ", button.command[1] >> ]

\* a callback (button.action, page.onEnter) is called, resolves, or throws
Callback(kind, phase) == [ kind |-> kind, text |-> << phase >> ]

\* the command step of execute
CommandStep(platform, button) ==
    IF Truthy(button.command) THEN << CommandLine(platform, button) >> ELSE <<>>

\* mutant: execute returns when the page is missing
AfterMissingPageReturn(platform, button) == <<>>

\* if (page) has no else: a missing page falls through to the command step
AfterMissingPage(platform, button) == CommandStep(platform, button)

\* the navigation step of execute: if (button.nextPage) { page = getPage(); if (page)
NavVerdict(button) ==
    IF ~Truthy(button.nextPage) THEN "none"
    ELSE IF MapGet(pages, button.nextPage[1]) # Undefined THEN "show"
    ELSE "skip"

IdleExec ==
    [ pc |-> "idle", platform |-> "", button |-> Undefined, page |-> Undefined,
      nav |-> "pending" ]

\* page.create(name).content(text).addButton(b1)...onEnter(hook).build():
\* PageBuilder.build publishes the page under its name
DefinePage(name, content, buttons, onEnter) ==
    /\ pages' = MapSet(pages, name,
                       [ name |-> name, content |-> content, buttons |-> buttons,
                         onEnter |-> onEnter, onLeave |-> None ])
    /\ UNCHANGED <<ex, log>>
    /\ UNCHANGED <<moreVars, regVars, botVars, builder, lastCall>>

\* mutant: the command is dispatched before the page is shown
NavigateCommandFirst(platform, button, sofar) ==
    LET page == MapGet(pages, button.nextPage[1])
        shown == IF NavVerdict(button) = "show" THEN ShowLines(platform, page) ELSE <<>>
    IN  /\ log' = sofar \o CommandStep(platform, button) \o shown
        /\ ex' = [ ex EXCEPT !.pc = "done", !.platform = platform, !.button = button,
                             !.page = Undefined, !.nav = NavVerdict(button) ]

\* execute from its navigation step to its next await or its return
Navigate(platform, button, sofar) ==
    LET page == MapGet(pages, button.nextPage[1])
    IN
    CASE NavVerdict(button) = "show" /\ Truthy(page.onEnter) ->
            \* await page.onEnter(platform, context)
            /\ log' = Append(sofar, Callback("onEnter", "call"))
            /\ ex' = [ ex EXCEPT !.pc = "onEnter", !.platform = platform,
                                 !.button = button, !.page = page, !.nav = "show" ]
      [] NavVerdict(button) = "show" /\ ~Truthy(page.onEnter) ->
            \* showPage runs to its end; execute awaits it
            /\ log' = sofar \o ShowLines(platform, page)
            /\ ex' = [ ex EXCEPT !.pc = "showPage", !.platform = platform,
                                 !.button = button, !.page = Undefined, !.nav = "show" ]
      [] NavVerdict(button) = "skip" ->
            /\ log' = sofar \o AfterMissingPage(platform, button)
            /\ ex' = [ ex EXCEPT !.pc = "done", !.platform = platform,
                                 !.button = button, !.page = Undefined, !.nav = "skip" ]
      [] NavVerdict(button) = "none" ->
            /\ log' = sofar \o CommandStep(platform, button)
            /\ ex' = [ ex EXCEPT !.pc = "done", !.platform = platform,
                                 !.button = button, !.page = Undefined, !.nav = "none" ]

\* PlatformExecutor.execute(platform, button) is called
CallExecute(platform, button) ==
    /\ ex.pc \in { "idle", "done", "failed" }
    /\ IF Truthy(button.action)
       THEN \* await button.action()
            /\ log' = << Callback("action", "call") >>
            /\ ex' = [ IdleExec EXCEPT !.pc = "action", !.platform = platform,
                                       !.button = button ]
       ELSE Navigate(platform, button, <<>>)
    /\ UNCHANGED pages
    /\ UNCHANGED <<moreVars, regVars, botVars, builder, lastCall>>

\* await button.action() resolves
ActionResolved ==
    /\ ex.pc = "action"
    /\ Navigate(ex.platform, ex.button, Append(log, Callback("action", "return")))
    /\ UNCHANGED pages
    /\ UNCHANGED <<moreVars, regVars, botVars, builder, lastCall>>

\* button.action() throws or rejects: execute rejects with its error
ActionRejected ==
    /\ ex.pc = "action"
    /\ log' = Append(log, Callback("action", "throw"))
    /\ ex' = [ ex EXCEPT !.pc = "failed" ]
    /\ UNCHANGED pages
    /\ UNCHANGED <<moreVars, regVars, botVars, builder, lastCall>>

\* await page.onEnter(...) resolves: showPage logs the page and returns
EnterResolved ==
    /\ ex.pc = "onEnter"
    /\ log' = Append(log, Callback("onEnter", "return")) \o ShowLines(ex.platform, ex.page)
    /\ ex' = [ ex EXCEPT !.pc = "showPage", !.page = Undefined ]
    /\ UNCHANGED pages
    /\ UNCHANGED <<moreVars, regVars, botVars, builder, lastCall>>

\* page.onEnter(...) throws or rejects: showPage and execute reject with its error
EnterRejected ==
    /\ ex.pc = "onEnter"
    /\ log' = Append(log, Callback("onEnter", "throw"))
    /\ ex' = [ ex EXCEPT !.pc = "failed", !.page = Undefined ]
    /\ UNCHANGED pages
    /\ UNCHANGED <<moreVars, regVars, botVars, builder, lastCall>>

\* await this.showPage(...) resumes: the command step, and execute returns
ShowResolved ==
    /\ ex.pc = "showPage"
    /\ log' = log \o CommandStep(ex.platform, ex.button)
    /\ ex' = [ ex EXCEPT !.pc = "done" ]
    /\ UNCHANGED pages
    /\ UNCHANGED <<moreVars, regVars, botVars, builder, lastCall>>

ExecNext ==
    \/ \E name \in PageNames, content \in PageContents,
          buttons \in SeqsUpTo(PageButtons, MaxButtons),
          onEnter \in { None, Some("hook") } :
            DefinePage(name, content, buttons, onEnter)
    \/ \E platform \in Platforms, button \in ExecButtons : CallExecute(platform, button)
    \/ ActionResolved
    \/ ActionRejected
    \/ EnterResolved
    \/ EnterRejected
    \/ ShowResolved

(***************************************************************************)
(* ButtonBuilder (button.ts): one builder and the button object it owns    *)
(***************************************************************************)
\* what config.json may list under platforms
ConfigPlatformLists ==
    { <<"telegram", "discord">>, <<"telegram">>, <<"telegram", "discord", "slack">> }

\* the arguments of style(): the entries of a partial ButtonStyle, in order
StyleArgs ==
    { << <<"primary", FALSE>> >>, << <<"danger", TRUE>>, <<"secondary", TRUE>> >> }

ButtonTexts == { "Go" }

\* the rest arguments of new ButtonBuilder(text, ...platforms)
PlatformArgs == { <<>>, <<"telegram">>, <<"discord">> }

RECURSIVE Spread(_, _)
\* { ...style, ...entries }
Spread(style, entries) ==
    IF entries = <<>> THEN style
    ELSE Spread([ style EXCEPT ![entries[1][1]] = entries[1][2] ], Tail(entries))

NoBuilder == [ button |-> Undefined, args |-> <<>>, called |-> {}, built |-> FALSE ]

NoCall == [ op |-> "none", outcome |-> "none" ]

\* mutant: build() looks at action and nextPage only
BuildThrowsIgnoringCommand(button) == ~Truthy(button.action) /\ ~Truthy(button.nextPage)

\* if (!this.button.action && !this.button.nextPage && !this.button.command) throw
BuildThrows(button) ==
    ~Truthy(button.action) /\ ~Truthy(button.nextPage) /\ ~Truthy(button.command)

\* a chained method of the builder: it has changed the button and returns this
Chained(op, button) == [ builder EXCEPT !.button = button, !.called = @ \cup { op } ]

Returned(op) == [ op |-> op, outcome |-> "return" ]

\* new ButtonBuilder(text, ...platforms), also create(text, ...platforms)
NewButtonBuilder(text, platforms) ==
    /\ builder' = [ button |-> [ text |-> text,
                                 platforms |-> IF Len(platforms) > 0 THEN platforms
                                               ELSE <<"telegram", "discord">>,
                                 style |-> NoStyle,
                                 action |-> None, nextPage |-> None, command |-> None ],
                    args |-> platforms, called |-> {}, built |-> FALSE ]
    /\ lastCall' = Returned("new")
    /\ UNCHANGED <<moreVars, regVars, botVars, pages, ex, log>>

\* action(callback)
BuilderAction(callback) ==
    /\ builder.button # Undefined
    /\ builder' = Chained("action", [ builder.button EXCEPT !.action = Some(callback) ])
    /\ lastCall' = Returned("action")
    /\ UNCHANGED <<moreVars, regVars, botVars, pages, ex, log>>

\* style(style)
BuilderStyle(style) ==
    /\ builder.button # Undefined
    /\ builder' = Chained("style", [ builder.button EXCEPT !.style = Spread(@, style) ])
    /\ lastCall' = Returned("style")
    /\ UNCHANGED <<moreVars, regVars, botVars, pages, ex, log>>

\* primary()
BuilderPrimary ==
    /\ builder.button # Undefined
    /\ builder' = Chained("primary", [ builder.button EXCEPT !.style = Spread(@, << <<"primary", TRUE>> >>) ])
    /\ lastCall' = Returned("primary")
    /\ UNCHANGED <<moreVars, regVars, botVars, pages, ex, log>>

\* secondary()
BuilderSecondary ==
    /\ builder.button # Undefined
    /\ builder' = Chained("secondary", [ builder.button EXCEPT !.style = Spread(@, << <<"secondary", TRUE>> >>) ])
    /\ lastCall' = Returned("secondary")
    /\ UNCHANGED <<moreVars, regVars, botVars, pages, ex, log>>

\* danger()
BuilderDanger ==
    /\ builder.button # Undefined
    /\ builder' = Chained("danger", [ builder.button EXCEPT !.style = Spread(@, << <<"danger", TRUE>> >>) ])
    /\ lastCall' = Returned("danger")
    /\ UNCHANGED <<moreVars, regVars, botVars, pages, ex, log>>

\* to(pageName)
BuilderTo(pageName) ==
    /\ builder.button # Undefined
    /\ builder' = Chained("to", [ builder.button EXCEPT !.nextPage = Some(pageName) ])
    /\ lastCall' = Returned("to")
    /\ UNCHANGED <<moreVars, regVars, botVars, pages, ex, log>>

\* command(cmd)
BuilderCommand(cmd) ==
    /\ builder.button # Undefined
    /\ builder' = Chained("command", [ builder.button EXCEPT !.command = Some(cmd) ])
    /\ lastCall' = Returned("command")
    /\ UNCHANGED <<moreVars, regVars, botVars, pages, ex, log>>

\* build(): throws, or returns the builder's own button object
BuilderBuild ==
    /\ builder.button # Undefined
    /\ IF BuildThrows(builder.button)
       THEN /\ lastCall' = [ op |-> "build", outcome |-> "throw" ]
            /\ UNCHANGED builder
       ELSE /\ lastCall' = [ op |-> "build", outcome |-> "return" ]
            /\ builder' = [ builder EXCEPT !.built = TRUE ]
    /\ UNCHANGED <<moreVars, regVars, botVars, pages, ex, log>>

BuilderNext ==
    \/ \E text \in ButtonTexts, platforms \in PlatformArgs : NewButtonBuilder(text, platforms)
    \/ \E callback \in { "fn" } : BuilderAction(callback)
    \/ \E style \in StyleArgs : BuilderStyle(style)
    \/ BuilderPrimary
    \/ BuilderSecondary
    \/ BuilderDanger
    \/ \E pageName \in { "", "home" } : BuilderTo(pageName)
    \/ \E cmd \in { "", "ping" } : BuilderCommand(cmd)
    \/ BuilderBuild

(***************************************************************************)
(* PageBuilder (button.ts): builders that stay alive after build()         *)
(*                                                                         *)
(* build() stores the builder's own page object in the table and returns   *)
(* it, so here a table entry holds a reference [ref |-> b] to the object   *)
(* of builder b.  (Under DefinePage above the builder is dropped after     *)
(* build(), nothing can change the object, and the entry holds its value.) *)
(***************************************************************************)
\* the PageBuilder objects of a run
PageBuilderIds == { 1, 2 }

\* the argument of new PageBuilder(name): a string, or nothing from untyped callers
PageNameArgs == { None, Some(""), Some("home"), Some("help") }

PageTexts == { "Welcome", "Bye" }

\* the button addButton is called with
AddedButtons ==
    { [ text |-> "Open", platforms |-> <<"telegram", "discord">>, style |-> NoStyle,
        action |-> None, nextPage |-> Some("home"), command |-> None ] }

NoPageCall == [ op |-> "none", builder |-> 0, outcome |-> "none" ]

\* the page object a table entry or a returned value refers to
Deref(objs, v) == IF v # Undefined /\ "ref" \in DOMAIN v THEN objs[v.ref] ELSE v

\* PageBuilder.getPage(name), also page.get(name)
getPage(name) == Deref(pobjs, MapGet(pages, name))

\* `${page.content}` of an optional string
Interpolated(opt) == IF opt = None THEN "undefined" ELSE opt[1]

\* what showPage writes for the page now stored under name
Display(platform, name) ==
    ShowLines(platform, [ getPage(name) EXCEPT !.content = Interpolated(@) ])

\* mutant: a name that is already in the table keeps its page
PublishKeepFirst(table, name, page) ==
    IF MapHas(table, name) THEN table ELSE MapSet(table, name, page)

\* PageBuilder.pages.set(page.name, page)
Publish(table, name, page) == MapSet(table, name, page)

\* new PageBuilder(name), also page.create(name)
NewPageBuilder(b, name) ==
    /\ pobjs[b] = Undefined
    /\ pobjs' = [ pobjs EXCEPT ![b] = [ name |-> name, content |-> None, buttons |-> <<>>,
                                        onEnter |-> None, onLeave |-> None ] ]
    /\ lastPage' = NoPageCall
    /\ UNCHANGED <<regVars, botVars, uiVars, configPlatforms, helpOut, sendCall>>

\* content(text)
PageContent(b, text) ==
    /\ pobjs[b] # Undefined
    /\ pobjs' = [ pobjs EXCEPT ![b].content = Some(text) ]
    /\ lastPage' = NoPageCall
    /\ UNCHANGED <<regVars, botVars, uiVars, configPlatforms, helpOut, sendCall>>

\* addButton(button)
PageAddButton(b, button) ==
    /\ pobjs[b] # Undefined
    /\ Len(pobjs[b].buttons) < MaxButtons
    /\ pobjs' = [ pobjs EXCEPT ![b].buttons = Append(@, button) ]
    /\ lastPage' = NoPageCall
    /\ UNCHANGED <<regVars, botVars, uiVars, configPlatforms, helpOut, sendCall>>

\* onEnter(callback)
PageOnEnter(b, callback) ==
    /\ pobjs[b] # Undefined
    /\ pobjs' = [ pobjs EXCEPT ![b].onEnter = Some(callback) ]
    /\ lastPage' = NoPageCall
    /\ UNCHANGED <<regVars, botVars, uiVars, configPlatforms, helpOut, sendCall>>

\* onLeave(callback)
PageOnLeave(b, callback) ==
    /\ pobjs[b] # Undefined
    /\ pobjs' = [ pobjs EXCEPT ![b].onLeave = Some(callback) ]
    /\ lastPage' = NoPageCall
    /\ UNCHANGED <<regVars, botVars, uiVars, configPlatforms, helpOut, sendCall>>

\* build(): throws on a falsy name, else publishes the builder's own page object
PageBuild(b) ==
    /\ pobjs[b] # Undefined
    /\ IF ~Truthy(pobjs[b].name)
       THEN /\ lastPage' = [ op |-> "build", builder |-> b, outcome |-> "throw" ]
            /\ UNCHANGED pages
       ELSE /\ lastPage' = [ op |-> "build", builder |-> b, outcome |-> "return" ]
            /\ pages' = Publish(pages, pobjs[b].name[1], [ ref |-> b ])
    /\ UNCHANGED <<regVars, botVars, ex, log, builder, lastCall, pobjs, configPlatforms, helpOut, sendCall>>

PagesNext ==
    \E b \in PageBuilderIds :
        \/ \E name \in PageNameArgs : NewPageBuilder(b, name)
        \/ \E text \in PageTexts : PageContent(b, text)
        \/ \E button \in AddedButtons : PageAddButton(b, button)
        \/ \E callback \in { "hook" } : PageOnEnter(b, callback)
        \/ \E callback \in { "hook" } : PageOnLeave(b, callback)
        \/ PageBuild(b)

(***************************************************************************)
(* getAllCommands, getVisibleCommands and showHelp (command.ts)            *)
(*                                                                         *)
(* The string showHelp returns is the sequence of its lines; a line is a   *)
(* record of the values its template interpolates.                         *)
(***************************************************************************)
\* the commands registered before help is asked for: three names with every
\* visibility, and one command that also has an alias
HelpCommands ==
    { [ id |-> Len(registered) + 1, name |-> n, description |-> "d", aliases |-> <<>>,
        showInHelp |-> f[1], showInList |-> f[2] ] :
        n \in { <<"B">>, <<"a">>, <<"a", "b">> },
        f \in { <<TRUE, TRUE>>, <<TRUE, FALSE>>, <<FALSE, TRUE>> } }
    \cup { [ id |-> Len(registered) + 1, name |-> <<"a">>, description |-> "d",
             aliases |-> << <<"x">> >>, showInHelp |-> TRUE, showInList |-> TRUE ] }

\* the options showHelp is called with
HelpOptions ==
    { [ limit |-> l, offset |-> o ] :
        l \in { None, Some(1), Some(2) }, o \in { None, Some(0), Some(1), Some(2) } }
    \cup { [ limit |-> Some(0), offset |-> None ] }

NoHelp == [ options |-> Undefined, text |-> <<>> ]

\* the elements of seq at the given positions, in order
AtPositions(seq, positions) ==
    [ n \in 1..Cardinality(positions) |->
        seq[CHOOSE i \in positions : Cardinality({ j \in positions : j <= i }) = n] ]

\* this.commands.values()
MapValueList(m) == [ i \in 1..Len(m) |-> m[i].val ]

\* mutant: every value of the map, one per key
getAllCommandsPerKey == MapValueList(commands)

\* getAllCommands(): Array.from(new Set(this.commands.values()))
getAllCommands ==
    LET values == MapValueList(commands)
    IN  AtPositions(values,
                    { i \in 1..Len(values) : \A j \in 1..(i - 1) : values[j] # values[i] })

\* getVisibleCommands(): getAllCommands().filter(cmd => cmd.showInList)
getVisibleCommands == SelectSeq(getAllCommands, LAMBDA cmd : cmd.showInList)

\* the collation order of the letters: lowercase before uppercase of the same letter
Alphabet == << "a", "A", "b", "B", "c", "C", "x", "X" >>

Tertiary(c) == CHOOSE i \in 1..Len(Alphabet) : Alphabet[i] = c

Primary(c) == (Tertiary(c) + 1) \div 2

\* the order of s and t by the first position where their letters differ at the
\* given level (1: the letter, 3: the letter and its case), a proper prefix first
CompareBy(s, t, level) ==
    LET Rank(c) == IF level = 1 THEN Primary(c) ELSE Tertiary(c)
        common == IF Len(s) < Len(t) THEN Len(s) ELSE Len(t)
        differ == { i \in 1..common : Rank(s[i]) # Rank(t[i]) }
        first == CHOOSE i \in differ : \A j \in differ : i <= j
    IN  IF differ # {} THEN (IF Rank(s[first]) < Rank(t[first]) THEN -1 ELSE 1)
        ELSE IF Len(s) < Len(t) THEN -1
        ELSE IF Len(s) > Len(t) THEN 1
        ELSE 0

\* s.localeCompare(t): by letter, then by case
localeCompare(s, t) ==
    IF CompareBy(s, t, 1) # 0 THEN CompareBy(s, t, 1)
    ELSE CompareBy(s, t, 3)

\* mutant: descending order
RECURSIVE SortByNameDescending(_)
SortByNameDescending(cmds) ==
    IF cmds = <<>> THEN <<>>
    ELSE LET x == cmds[Len(cmds)]
             sorted == SortByNameDescending(SubSeq(cmds, 1, Len(cmds) - 1))
             k == Cardinality({ i \in 1..Len(sorted) :
                                    localeCompare(sorted[i].name, x.name) >= 0 })
         IN  SubSeq(sorted, 1, k) \o << x >> \o SubSeq(sorted, k + 1, Len(sorted))

\* .sort((a, b) => a.name.localeCompare(b.name)): a stable sort
RECURSIVE SortByName(_)
SortByName(cmds) ==
    IF cmds = <<>> THEN <<>>
    ELSE LET x == cmds[Len(cmds)]
             sorted == SortByName(SubSeq(cmds, 1, Len(cmds) - 1))
             k == Cardinality({ i \in 1..Len(sorted) :
                                    localeCompare(sorted[i].name, x.name) <= 0 })
         IN  SubSeq(sorted, 1, k) \o << x >> \o SubSeq(sorted, k + 1, Len(sorted))

\* array.slice(from, to) for 0 <= from
Slice(array, from, to) ==
    SubSeq(array, from + 1, IF to < Len(array) THEN to ELSE Len(array))

\* the commands showHelp pages over: visible, shown in help, first of each name
HelpEligible ==
    LET inHelp == SelectSeq(getVisibleCommands, LAMBDA cmd : cmd.showInHelp)
    IN  AtPositions(inHelp,
                    { i \in 1..Len(inHelp) :
                        \A j \in 1..(i - 1) : inHelp[j].name # inHelp[i].name })

\* const { limit, offset = 0 } = options
OffsetOf(options) == IF options.offset = None THEN 0 ELSE options.offset[1]

\* mutant: an empty page still gets its header
EmptyHelp == << [ kind |-> "header" ] >>

\* return 'No commands available.'
NoCommandsAvailable == << [ kind |-> "none" ] >>

\* mutant: the current page counts from 0
CurrentPageFromZero(offset, limit) == offset \div limit

\* Math.floor(offset / limit) + 1
CurrentPage(offset, limit) == (offset \div limit) + 1

\* Math.ceil(commands.length / limit)
TotalPages(count, limit) == (count + limit - 1) \div limit

\* paginationInfo, without its leading blank line
PaginationInfo(options, shown, count) ==
    IF options.limit # None
    THEN << [ kind |-> "page", current |-> CurrentPage(OffsetOf(options), options.limit[1]),
              total |-> TotalPages(count, options.limit[1]), count |-> count ] >>
    ELSE IF OffsetOf(options) > 0
    THEN << [ kind |-> "showing", from |-> OffsetOf(options) + 1,
              to |-> IF OffsetOf(options) + shown < count
                     THEN OffsetOf(options) + shown ELSE count,
              count |-> count ] >>
    ELSE <<>>

\* showHelp(options)
showHelp(options) ==
    LET cmds == HelpEligible
        offset == OffsetOf(options)
        paginatedCommands ==
            IF options.limit # None THEN Slice(cmds, offset, offset + options.limit[1])
            ELSE Slice(cmds, offset, Len(cmds))
        sorted == SortByName(paginatedCommands)
        commandList ==
            [ i \in 1..Len(sorted) |->
                [ kind |-> "item", name |-> sorted[i].name,
                  description |-> sorted[i].description ] ]
        info == PaginationInfo(options, Len(paginatedCommands), Len(cmds))
    IN  IF Len(paginatedCommands) = 0 THEN NoCommandsAvailable
        ELSE << [ kind |-> "header" ] >> \o commandList
                \o (IF info # <<>> THEN << [ kind |-> "blank" ] >> \o info ELSE <<>>)

\* a call of showHelp(options) returns
ShowHelp(options) ==
    /\ helpOut' = [ options |-> options, text |-> showHelp(options) ]
    /\ UNCHANGED <<regVars, botVars, uiVars, pobjs, lastPage, configPlatforms, sendCall>>

HelpNext ==
    \/ \E command \in HelpCommands : Register(command)
    \/ \E options \in HelpOptions : ShowHelp(options)

(***************************************************************************)
(* Messages (message.ts)                                                   *)
(*                                                                         *)
(* A JavaScript value of the union boolean | number | string is a record   *)
(* of its typeof and of the characters of String(value), so that true, 1,  *)
(* '1' and 'true' are four different values.                               *)
(***************************************************************************)
JsBool(b) ==
    [ type |-> "boolean",
      str |-> IF b THEN << "t", "r", "u", "e" >> ELSE << "f", "a", "l", "s", "e" >> ]

JsNum(digits) == [ type |-> "number", str |-> digits ]

JsStr(chars) == [ type |-> "string", str |-> chars ]

typeof(value) == value.type

\* the values given as options.reply
ReplyArgs ==
    { None, Some(JsBool(TRUE)), Some(JsBool(FALSE)),
      Some(JsNum(<< "1" >>)), Some(JsNum(<< "0" >>)), Some(JsNum(<< "4", "2" >>)),
      Some(JsStr(<< "1" >>)), Some(JsStr(<< "T", "r", "u", "e" >>)),
      Some(JsStr(<< "m", "7" >>)) }

\* the values given as options.replyToMessageId
ReplyToMessageIdArgs == { None, Some(JsStr(<< "c", "1" >>)) }

\* the values given as options.platform: one platform or an array of platforms
PlatformTargets ==
    { [ isArray |-> FALSE, one |-> "telegram" ],
      [ isArray |-> TRUE, items |-> << "telegram", "discord" >> ],
      [ isArray |-> TRUE, items |-> <<>> ] }

\* the values given as options.platformSpecific: per platform, an object
PlatformSpecificArgs ==
    { None,
      Some(<< [ key |-> "telegram",
                val |-> << [ key |-> "replyToMessageId",
                             val |-> Some(JsStr(<< "p", "9" >>)) ] >> ] >>) }

\* the values given as options.privateMessage
PrivateMessageArgs == { None, Some(JsNum(<< "1" >>)) }

MessageOptionsArgs ==
    { [ text |-> "hi", platform |-> p, reply |-> r, replyToMessageId |-> id,
        platformSpecific |-> s, privateMessage |-> pm, onSuccess |-> cb ] :
        p \in PlatformTargets, r \in ReplyArgs, id \in ReplyToMessageIdArgs,
        s \in PlatformSpecificArgs, pm \in PrivateMessageArgs, cb \in BOOLEAN }

\* Math.random().toString(36).substring(2, 11)
MessageIds == { "k3f9x0a2b", "z81qm4c7d" }

NoMessage ==
    [ pc |-> "idle", options |-> Undefined, replyToMessageIdFinal |-> None,
      targetPlatforms |-> <<>>, i |-> 1, messageId |-> "", results |-> <<>>,
      sent |-> <<>>, notified |-> <<>> ]

\* shouldReply: true for true, 1, '1' and 'true' in any case
shouldReply(value) ==
    IF value = JsBool(TRUE) \/ value = JsNum(<< "1" >>) THEN TRUE
    ELSE IF typeof(value) = "string"
         THEN value.str = << "1" >> \/ toLowerCase(value.str) = << "t", "r", "u", "e" >>
         ELSE FALSE

\* the reply target sendMessage computes from reply and replyToMessageId
replyToMessageIdFinal(replyOption, replyToMessageId) ==
    IF replyOption # None
    THEN IF typeof(replyOption[1]) = "string" \/ typeof(replyOption[1]) = "number"
         THEN replyOption
         ELSE IF shouldReply(replyOption[1])
              THEN IF replyToMessageId # None THEN replyToMessageId ELSE None
              ELSE None
    ELSE None

\* Array.isArray(platforms) ? platforms : [platforms]
targetPlatforms(platforms) ==
    IF platforms.isArray THEN platforms.items ELSE << platforms.one >>

\* platformSpecific[platform] || {}, with platformSpecific = {} by default
platformOptions(platformSpecific, platform) ==
    IF platformSpecific # None /\ MapHas(platformSpecific[1], platform)
    THEN MapGet(platformSpecific[1], platform)
    ELSE <<>>

\* Boolean(privateMessage === true || privateMessage === 1), false by default
privateFlag(privateMessage) ==
    privateMessage # None
        /\ (privateMessage[1] = JsBool(TRUE) \/ privateMessage[1] = JsNum(<< "1" >>))

\* the object passed to sendToPlatform: the spread of platformOptions comes last
SendOptions(m, platform) ==
    LET over == platformOptions(m.options.platformSpecific, platform)
    IN  [ text |-> m.options.text,
          replyToMessageId |-> IF MapHas(over, "replyToMessageId")
                               THEN MapGet(over, "replyToMessageId")
                               ELSE m.replyToMessageIdFinal,
          privateMessage |-> privateFlag(m.options.privateMessage) ]

\* sendToPlatform up to its await: the console line and the object it logs
SentLine(platform, options) ==
    [ line |-> << "[", toUpperCase(platform), "] Sending ",
                  IF options.privateMessage THEN "private message" ELSE "channel message",
                  ":" >>,
      platform |-> platform,
      options |-> options ]

\* the for loop from the head of iteration m.i to its await, or to the return
SendLoop(m, messageId) ==
    IF m.i > Len(m.targetPlatforms)
    THEN [ m EXCEPT !.pc = "returned" ]
    ELSE [ m EXCEPT !.pc = "sendToPlatform",
                    !.messageId = messageId,
                    !.sent = Append(@, SentLine(m.targetPlatforms[m.i],
                                                SendOptions(m, m.targetPlatforms[m.i]))) ]

\* sendMessage(options) is called; messageId is what Math.random() yields in the
\* first sendToPlatform call
SendMessage(options, messageId) ==
    /\ sendCall.pc \in { "idle", "returned" }
    /\ sendCall' = SendLoop([ NoMessage EXCEPT
                            !.options = options,
                            !.replyToMessageIdFinal =
                                replyToMessageIdFinal(options.reply, options.replyToMessageId),
                            !.targetPlatforms = targetPlatforms(options.platform) ],
                       messageId)
    /\ UNCHANGED <<regVars, botVars, uiVars, pobjs, lastPage, configPlatforms, helpOut>>

\* the timer of sendToPlatform fires: the result is pushed, onSuccess is called
\* and the loop goes on; nextMessageId is what Math.random() yields in the next
\* sendToPlatform call
SendResolved(nextMessageId) ==
    LET platform == sendCall.targetPlatforms[sendCall.i]
    IN
    /\ sendCall.pc = "sendToPlatform"
    /\ sendCall' = SendLoop([ sendCall EXCEPT
                            !.results = Append(@, [ platform |-> platform,
                                                    messageId |-> sendCall.messageId ]),
                            !.notified = IF sendCall.options.onSuccess
                                         THEN Append(@, << sendCall.messageId, platform >>)
                                         ELSE @,
                            !.i = @ + 1 ],
                       nextMessageId)
    /\ UNCHANGED <<regVars, botVars, uiVars, pobjs, lastPage, configPlatforms, helpOut>>

MessageNext ==
    \/ \E options \in MessageOptionsArgs : \E messageId \in MessageIds :
            SendMessage(options, messageId)
    \/ \E nextMessageId \in MessageIds : SendResolved(nextMessageId)

(***************************************************************************)
(* Properties of the command registry                                      *)
(***************************************************************************)
SameLetter(c, d) ==
    \/ c = d
    \/ {c, d} \in { {"a", "A"}, {"b", "B"}, {"c", "C"}, {"x", "X"} }

EqualIgnoringCase(s, k) ==
    /\ Len(s) = Len(k)
    /\ \A i \in 1..Len(s) : SameLetter(s[i], k[i])

\* command's name or one of its aliases is k, ignoring letter case
Owns(command, k) ==
    \/ EqualIgnoringCase(command.name, k)
    \/ \E j \in 1..Len(command.aliases) : EqualIgnoringCase(command.aliases[j], k)

\* the register calls, by number, whose command owns k
Owners(k) == { n \in 1..Len(registered) : Owns(registered[n], k) }

Latest(S) == CHOOSE n \in S : \A m \in S : m <= n

\* C1: after any sequence of register calls, getCommand(k) is the command of the
\* most recent call whose name or alias equals k ignoring case, and is undefined
\* when no registered name or alias equals k ignoring case.
C1_GetCommandMostRecent ==
    \A k \in LookupKeys :
        getCommand(k) = IF Owners(k) = {} THEN Undefined
                        ELSE registered[Latest(Owners(k))]

\* the lookup "B" finds the third command through its alias "b", although the first
\* command is named "b", while "c" is owned by no command
C1_Witness ==
    /\ Len(registered) = 3
    /\ Owners(<<"B">>) = {1, 3}
    /\ registered[1].name = <<"b">>
    /\ registered[3].name = <<"a">>
    /\ getCommand(<<"B">>) = registered[3]
    /\ getCommand(<<"c">>) = Undefined

(***************************************************************************)
(* Properties of showHelp                                                  *)
(***************************************************************************)
\* every name and alias a register call has written
KeysWritten ==
    UNION { { registered[n].name }
            \cup { registered[n].aliases[j] : j \in 1..Len(registered[n].aliases) } :
            n \in 1..Len(registered) }

\* the command of register call n is still the latest owner of one of its keys
Bound(n) ==
    \E k \in KeysWritten : Owns(registered[n], k) /\ Latest(Owners(k)) = n

\* the names of the bound commands that are shown in the list and in help
EligibleNames ==
    { registered[n].name :
        n \in { m \in 1..Len(registered) :
                    Bound(m) /\ registered[m].showInList /\ registered[m].showInHelp } }

\* dictionary order of names: letter by letter, whatever the case of a letter
LetterIndex(c) == CHOOSE i \in 1..4 : SameLetter(<< "a", "b", "c", "x" >>[i], c)

Precedes(s, t) ==
    \E p \in 1..(Len(t)) :
        /\ \A i \in 1..(p - 1) : i <= Len(s) /\ s[i] = t[i]
        /\ \/ p = Len(s) + 1
           \/ p <= Len(s) /\ LetterIndex(s[p]) < LetterIndex(t[p])

\* the command lines of the returned help text
HelpItems == SelectSeq(helpOut.text, LAMBDA line : line.kind = "item")

HelpCalled == helpOut.options # Undefined

\* the offset and limit of the call; no offset is offset 0
CalledOffset == IF helpOut.options.offset = <<>> THEN 0 ELSE helpOut.options.offset[1]

\* the number of commands left after slicing the eligible commands
SliceSize ==
    LET rest == IF Cardinality(EligibleNames) > CalledOffset
                THEN Cardinality(EligibleNames) - CalledOffset ELSE 0
    IN  IF helpOut.options.limit = <<>> THEN rest
        ELSE IF helpOut.options.limit[1] < rest THEN helpOut.options.limit[1]
        ELSE rest

\* C13: showHelp without limit and with offset 0 returns one command line for
\* each name of a registered command that has showInList and showInHelp, no
\* name twice, the lines in ascending dictionary order of the names (an
\* uppercase letter ranks with its lowercase letter), directly after the header
\* and followed by nothing.
C13_HelpSortedAll ==
    (HelpCalled /\ helpOut.options.limit = <<>> /\ CalledOffset = 0) =>
        /\ Len(HelpItems) = Cardinality(EligibleNames)
        /\ { HelpItems[i].name : i \in 1..Len(HelpItems) } = EligibleNames
        /\ \A i, j \in 1..Len(HelpItems) :
                i < j => Precedes(HelpItems[i].name, HelpItems[j].name)
        /\ EligibleNames # {} =>
                /\ helpOut.text[1].kind = "header"
                /\ helpOut.text = << helpOut.text[1] >> \o HelpItems

\* commands named B, a, ab were registered in this order and showHelp({}) lists
\* a, ab, B
C13_Witness ==
    /\ HelpCalled
    /\ helpOut.options = [ limit |-> <<>>, offset |-> <<>> ]
    /\ Len(registered) = 3
    /\ registered[1].name = << "B" >>
    /\ registered[2].name = << "a" >>
    /\ registered[3].name = << "a", "b" >>
    /\ Len(HelpItems) = 3
    /\ HelpItems[1].name = << "a" >>
    /\ HelpItems[2].name = << "a", "b" >>
    /\ HelpItems[3].name = << "B" >>

\* C14: with a limit L >= 1 and an offset o below the number M of eligible
\* names, showHelp lists min(L, M - o) commands and ends with a blank line and
\* the footer 'Page X of Y (M total commands)', where X is the page o falls on
\* ((X - 1) * L <= o < X * L), Y is the least number of pages of L that hold M
\* commands ((Y - 1) * L < M <= Y * L), and 1 <= X <= Y.
C14_HelpPageFooter ==
    (/\ HelpCalled
     /\ helpOut.options.limit # <<>>
     /\ helpOut.options.limit[1] >= 1
     /\ CalledOffset < Cardinality(EligibleNames)) =>
        LET L == helpOut.options.limit[1]
            M == Cardinality(EligibleNames)
            text == helpOut.text
            footer == text[Len(text)]
        IN  /\ Len(HelpItems) = (IF L < M - CalledOffset THEN L ELSE M - CalledOffset)
            /\ Len(text) = Len(HelpItems) + 3
            /\ text[Len(text) - 1].kind = "blank"
            /\ footer.kind = "page"
            /\ footer.count = M
            /\ (footer.current - 1) * L <= CalledOffset
            /\ CalledOffset < footer.current * L
            /\ (footer.total - 1) * L < M
            /\ M <= footer.total * L
            /\ 1 <= footer.current
            /\ footer.current <= footer.total

\* three names are eligible and showHelp({limit: 2, offset: 2}) lists one command
\* on page 2 of 2
C14_Witness ==
    /\ HelpCalled
    /\ helpOut.options = [ limit |-> << 2 >>, offset |-> << 2 >> ]
    /\ Cardinality(EligibleNames) = 3
    /\ Len(HelpItems) = 1
    /\ helpOut.text[Len(helpOut.text)]
            = [ kind |-> "page", current |-> 2, total |-> 2, count |-> 3 ]

\* C15: showHelp returns the single line 'No commands available.' exactly when
\* no command is left after eligibility filtering, deduplication and slicing;
\* in every other case the text starts with the header.
C15_NoCommandsAvailable ==
    HelpCalled =>
        /\ (helpOut.text = << [ kind |-> "none" ] >>) <=> (SliceSize = 0)
        /\ SliceSize > 0 => helpOut.text[1].kind = "header"
        /\ \A i \in 1..Len(helpOut.text) :
                helpOut.text[i].kind = "none" => Len(helpOut.text) = 1

\* two names are eligible and showHelp({offset: 2}) returns 'No commands available.'
C15_Witness ==
    /\ HelpCalled
    /\ helpOut.options = [ limit |-> <<>>, offset |-> << 2 >> ]
    /\ Cardinality(EligibleNames) = 2
    /\ helpOut.text = << [ kind |-> "none" ] >>

\* the names listed by showHelp({ limit: L, offset: k * L }), page k of the walk
WalkPage(L, k) ==
    LET text == showHelp([ limit |-> Some(L), offset |-> Some(k * L) ])
        items == SelectSeq(text, LAMBDA line : line.kind = "item")
    IN  { items[i].name : i \in 1..Len(items) }

\* C24: when showHelp has returned the page at offset k * L of a walk with limit
\* L >= 1, every eligible name is on exactly one page of the walk, and every name
\* on the returned page sorts before every name on each later page.
C24_AsStated ==
    (/\ HelpCalled
     /\ helpOut.options.limit # <<>>
     /\ helpOut.options.limit[1] >= 1
     /\ CalledOffset % helpOut.options.limit[1] = 0) =>
        LET L == helpOut.options.limit[1]
            k == CalledOffset \div L
            last == Cardinality(EligibleNames)
        IN  /\ { HelpItems[i].name : i \in 1..Len(HelpItems) } = WalkPage(L, k)
            /\ \A n \in EligibleNames :
                    Cardinality({ p \in 0..last : n \in WalkPage(L, p) }) = 1
            /\ \A p \in (k + 1)..last :
                    \A i \in 1..Len(HelpItems) :
                        \A n \in WalkPage(L, p) : Precedes(HelpItems[i].name, n)

(***************************************************************************)
(* Properties of getAllCommands and of registration per key                *)
(***************************************************************************)
\* how often the command record occurs in the list
Occurrences(list, command) == Cardinality({ i \in 1..Len(list) : list[i] = command })

\* C16: getAllCommands() holds the command of every register call that is still
\* the latest owner of one of its keys exactly once, and nothing else (so no
\* command all of whose keys were taken over by later calls);
\* getVisibleCommands() holds exactly those of them with showInList, once each.
C16_AllCommandsDeduplicated ==
    /\ \A n \in 1..Len(registered) :
            Occurrences(getAllCommands, registered[n]) = (IF Bound(n) THEN 1 ELSE 0)
    /\ \A i \in 1..Len(getAllCommands) :
            \E n \in 1..Len(registered) : getAllCommands[i] = registered[n]
    /\ \A n \in 1..Len(registered) :
            Occurrences(getVisibleCommands, registered[n])
                = (IF Bound(n) /\ registered[n].showInList THEN 1 ELSE 0)
    /\ \A i \in 1..Len(getVisibleCommands) :
            \E n \in 1..Len(getAllCommands) : getVisibleCommands[i] = getAllCommands[n]

\* the first command (name a) lost its only key to the second (name a, alias x),
\* which is bound to two keys and listed once; the third is hidden from the list
C16_Witness ==
    /\ Len(registered) = 3
    /\ registered[1].name = << "a" >>
    /\ registered[2].name = << "a" >>
    /\ registered[2].aliases = << << "x" >> >>
    /\ ~registered[3].showInList
    /\ Len(commands) = 3
    /\ getAllCommands = << registered[2], registered[3] >>
    /\ getVisibleCommands = << registered[2] >>

\* the keys getCommand is asked for
HelpKeys == { <<"a">>, <<"B">>, <<"b">>, <<"a", "b">>, <<"x">>, <<"X">>, <<"c">> }

\* C18: registration is per key.  When a command A owns the keys a and x, a
\* later command B owns a but not x, and no call after A names x and no call
\* after B names a, then getCommand(a) is B, getCommand(x) is still A and A is
\* still in getAllCommands(); and a register call changes getCommand(k) only for
\* the keys k that its command names.
C18_RegistrationPerKey ==
    /\ [](\A m, n \in 1..Len(registered) :
            \A a, x \in KeysWritten :
                (/\ m < n
                 /\ Owns(registered[m], a) /\ Owns(registered[m], x)
                 /\ Owns(registered[n], a) /\ ~Owns(registered[n], x)
                 /\ Latest(Owners(x)) = m
                 /\ Latest(Owners(a)) = n) =>
                    /\ getCommand(a) = registered[n]
                    /\ getCommand(x) = registered[m]
                    /\ Occurrences(getAllCommands, registered[m]) = 1)
    /\ [][ \A k \in HelpKeys :
                MapGet(commands', toLowerCase(k)) # MapGet(commands, toLowerCase(k)) =>
                    /\ Len(registered') = Len(registered) + 1
                    /\ Owns(registered'[Len(registered')], k)
                    /\ MapGet(commands', toLowerCase(k)) = registered'[Len(registered')]
         ]_vars

\* A (name a, alias x) was registered, then B (name a, no alias): a finds B, x
\* still finds A, and both are listed
C18_Witness ==
    /\ Len(registered) = 2
    /\ registered[1].name = << "a" >>
    /\ registered[1].aliases = << << "x" >> >>
    /\ registered[2].name = << "a" >>
    /\ registered[2].aliases = <<>>
    /\ getCommand(<< "a" >>) = registered[2]
    /\ getCommand(<< "x" >>) = registered[1]
    /\ getAllCommands = << registered[2], registered[1] >>

(***************************************************************************)
(* Properties of the bot lifecycle manager                                 *)
(***************************************************************************)
\* call t is at its return: its results are final and nothing has run since
Done(t) == cpu = t /\ tasks[t].pc = "done"

\* no other call was in flight together with t: the state t was called in is known
Alone(t) == tasks[t].olap = 0

StateAsCalled(t) ==
    /\ runningBots = tasks[t].snap.running
    /\ botInstances = tasks[t].snap.instances
    /\ handles = tasks[t].snap.handles

\* the platform a result string is about
MsgPlatform(msg) == msg[2]

\* C2: startBot on platforms that are all in the running set returns, for each,
\* 'Bot for P is already running', constructs and starts no handle, and leaves the
\* running set and the handle map as they were.
C2_StartAlreadyRunning ==
    \A t \in Slots :
        ( /\ Done(t)
          /\ tasks[t].kind = "startBot"
          /\ Alone(t)
          /\ \A j \in 1..Len(tasks[t].platforms) :
                SetHas(tasks[t].snap.running, tasks[t].platforms[j]) )
        => /\ tasks[t].results =
                [ j \in 1..Len(tasks[t].platforms) |->
                    AlreadyRunningMsg(tasks[t].platforms[j]) ]
           /\ StateAsCalled(t)

C2_Witness ==
    \E t \in Slots :
        /\ Done(t)
        /\ tasks[t].kind = "startBot"
        /\ Alone(t)
        /\ tasks[t].platforms = <<"telegram">>
        /\ SetHas(tasks[t].snap.running, "telegram")
        /\ tasks[t].results = << AlreadyRunningMsg("telegram") >>
        /\ DOMAIN handles # {}

\* C3: stopBot on platforms none of which is in the running set returns, for each,
\* 'No running bot found for P', calls stop() on no handle, and leaves the running
\* set and the handle map as they were.
C3_StopNotRunning ==
    \A t \in Slots :
        ( /\ Done(t)
          /\ tasks[t].kind = "stopBot"
          /\ Alone(t)
          /\ \A j \in 1..Len(tasks[t].platforms) :
                ~SetHas(tasks[t].snap.running, tasks[t].platforms[j]) )
        => /\ tasks[t].results =
                [ j \in 1..Len(tasks[t].platforms) |->
                    NoRunningMsg(tasks[t].platforms[j]) ]
           /\ StateAsCalled(t)

\* stopBot("telegram") while only discord runs: discord's handle is not stopped
C3_Witness ==
    \E t \in Slots :
        /\ Done(t)
        /\ tasks[t].kind = "stopBot"
        /\ Alone(t)
        /\ tasks[t].platforms = <<"telegram">>
        /\ tasks[t].snap.running = <<"discord">>
        /\ tasks[t].results = << NoRunningMsg("telegram") >>
        /\ handles[MapGet(botInstances, "discord")].stops = 0

\* the started handles that botInstances does not hold although no stop() was
\* ever called on them
Leaked == { h \in DOMAIN handles :
                /\ handles[h].started
                /\ handles[h].stops = 0
                /\ h \notin MapValues(botInstances) }

\* C17: when startBot's assignment into botInstances replaces a handle, the
\* replaced handle was started, no entry of botInstances refers to it any more,
\* the entry of its platform holds the handle of the replacing call, and the
\* replacing call overlapped another start call (both passed the 'already
\* running' check); and stop() is only ever called on a handle that botInstances
\* holds, so no later stopBot or shutdown stops the replaced one.
C17_OverlappingStartsLeak ==
    /\ [](\A t \in Slots :
            tasks[t].replaced # 0 =>
                LET h == tasks[t].replaced
                IN  /\ h \in DOMAIN handles
                    /\ handles[h].started
                    /\ h \notin MapValues(botInstances)
                    /\ MapHas(botInstances, handles[h].platform)
                    /\ handles[MapGet(botInstances, handles[h].platform)].started
                    /\ tasks[t].olap = 2)
    /\ [][ \A h \in DOMAIN handles \cap DOMAIN handles' :
                handles'[h].stops > handles[h].stops => h \in MapValues(botInstances)
         ]_vars

\* two startBot("telegram") calls overlapped and both started a handle; the first
\* has returned, and the assignment of the second has just replaced the first
\* one's handle, which was started and never stopped
C17_Witness ==
    \E t, u \in Slots :
        /\ t # u
        /\ ~InFlight(t)
        /\ tasks[u].kind = "startBot"
        /\ tasks[u].platforms = <<"telegram">>
        /\ tasks[u].results = << StartedMsg("telegram") >>
        /\ tasks[u].olap = 2
        /\ tasks[u].replaced \in Leaked
        /\ runningBots = <<"telegram">>
        /\ Len(botInstances) = 1
        /\ handles[MapGet(botInstances, "telegram")].started

\* C4: restartBot(P) with P running, whose stop() resolves and whose following
\* start() rejects, returns the start failure message for P and leaves P out of the
\* running set and out of the handle map.
C4_RestartNoRollback ==
    \A t \in Slots :
        \A plat \in Platforms :
            ( /\ Done(t)
              /\ tasks[t].kind = "restartBot"
              /\ Alone(t)
              /\ tasks[t].platforms = << plat >>
              /\ SetHas(tasks[t].snap.running, plat)
              /\ tasks[t].hist = << [ op |-> "stop", plat |-> plat, ok |-> TRUE ],
                                    [ op |-> "start", plat |-> plat, ok |-> FALSE ] >> )
            => /\ \E reason \in Reasons :
                    tasks[t].results = << FailedStartMsg(plat, reason) >>
               /\ ~SetHas(runningBots, plat)
               /\ ~MapHas(botInstances, plat)

C4_Witness ==
    \E t \in Slots :
        /\ Done(t)
        /\ tasks[t].kind = "restartBot"
        /\ Alone(t)
        /\ tasks[t].platforms = <<"telegram">>
        /\ tasks[t].snap.running = <<"telegram">>
        /\ tasks[t].hist = << [ op |-> "stop", plat |-> "telegram", ok |-> TRUE ],
                              [ op |-> "start", plat |-> "telegram", ok |-> FALSE ] >>
        /\ runningBots = <<>>

StartResults(plat) ==
    { NotSupportedMsg(plat), AlreadyRunningMsg(plat), StartedMsg(plat) }
        \cup { FailedStartMsg(plat, reason) : reason \in Reasons }

StopResults(plat) ==
    { NoRunningMsg(plat), StoppedMsg(plat), InstanceNotFoundMsg(plat) }
        \cup { FailedStopMsg(plat, reason) : reason \in Reasons }

\* the platforms among the first j - 1 of call t whose result is msg(platform)
Earlier(t, j, msg(_)) ==
    { tasks[t].platforms[k] : k \in { k \in 1..(j - 1) :
                                        tasks[t].results[k] = msg(tasks[t].platforms[k]) } }

SeqToSet(s) == { s[k] : k \in 1..Len(s) }

\* what startBot called alone must answer for its j-th platform
StartAnswerOk(t, j) ==
    LET plat == tasks[t].platforms[j]
        running == (SeqToSet(tasks[t].snap.running) \cup Earlier(t, j, StartedMsg))
    IN  IF plat \notin enabled THEN tasks[t].results[j] = NotSupportedMsg(plat)
        ELSE IF plat \in running THEN tasks[t].results[j] = AlreadyRunningMsg(plat)
        ELSE tasks[t].results[j] \in
                { StartedMsg(plat) } \cup { FailedStartMsg(plat, r) : r \in Reasons }

\* what stopBot called alone must answer for its j-th platform
StopAnswerOk(t, j) ==
    LET plat == tasks[t].platforms[j]
        running == (SeqToSet(tasks[t].snap.running) \ Earlier(t, j, StoppedMsg))
    IN  IF plat \notin running THEN tasks[t].results[j] = NoRunningMsg(plat)
        ELSE tasks[t].results[j] \in
                { StoppedMsg(plat) } \cup { FailedStopMsg(plat, r) : r \in Reasons }

\* C5: startBot and stopBot return one result per platform, the j-th about the j-th
\* platform, under every interleaving; a failure changes only its own result: called
\* alone, every platform is answered by what its own state asks for (a platform that
\* is eligible is started or stopped whatever happened to the platforms before it),
\* and the running set at the return is the one at the call with the started
\* platforms added, or the stopped ones removed.
C5_BatchIndependent ==
    \A t \in Slots :
        ( Done(t) /\ tasks[t].kind \in { "startBot", "stopBot" } )
        => /\ Len(tasks[t].results) = Len(tasks[t].platforms)
           /\ \A j \in 1..Len(tasks[t].platforms) :
                /\ MsgPlatform(tasks[t].results[j]) = tasks[t].platforms[j]
                /\ tasks[t].results[j] \in
                        IF tasks[t].kind = "startBot"
                        THEN StartResults(tasks[t].platforms[j])
                        ELSE StopResults(tasks[t].platforms[j])
           /\ ( Alone(t) /\ tasks[t].kind = "startBot" )
                => /\ \A j \in 1..Len(tasks[t].platforms) : StartAnswerOk(t, j)
                   /\ SeqToSet(runningBots) =
                        SeqToSet(tasks[t].snap.running)
                            \cup Earlier(t, Len(tasks[t].platforms) + 1, StartedMsg)
           /\ ( Alone(t) /\ tasks[t].kind = "stopBot" )
                => /\ \A j \in 1..Len(tasks[t].platforms) : StopAnswerOk(t, j)
                   /\ SeqToSet(runningBots) =
                        SeqToSet(tasks[t].snap.running)
                            \ Earlier(t, Len(tasks[t].platforms) + 1, StoppedMsg)

\* discord's start() rejects and telegram is started all the same
C5_Witness ==
    \E t \in Slots :
        /\ Done(t)
        /\ tasks[t].kind = "startBot"
        /\ tasks[t].platforms = <<"discord", "telegram">>
        /\ tasks[t].results = << FailedStartMsg("discord", "ECONNRESET"),
                                 StartedMsg("telegram") >>
        /\ runningBots = <<"telegram">>

\* C21: in every state, between the awaits of overlapping calls too, the running
\* set holds exactly the platforms that have an entry in the handle map, and no
\* call has the result 'Bot instance not found for P'.
C21_RunningIffInstance ==
    /\ SeqToSet(runningBots) = SeqToSet(MapKeys(botInstances))
    /\ \A t \in Slots :
            \A j \in 1..Len(tasks[t].results) :
                \A plat \in Platforms : tasks[t].results[j] # InstanceNotFoundMsg(plat)

\* a stopBot call awaits stop() on telegram's handle while an overlapping
\* startBot call awaits start() on a new handle for discord
C21_Witness ==
    \E t, u \in Slots :
        /\ cpu = 0
        /\ tasks[t].pc = "botStop" /\ tasks[t].platforms[tasks[t].i] = "telegram"
        /\ tasks[u].pc = "botStart" /\ tasks[u].platforms[tasks[u].i] = "discord"
        /\ runningBots = <<"telegram">>
        /\ MapKeys(botInstances) = <<"telegram">>

\* the handle that the map inst holds for plat had a stop() that failed
StopFailedOn(snap, plat) ==
    /\ MapHas(snap.instances, plat)
    /\ snap.handles[MapGet(snap.instances, plat)].stopFailures > 0

\* C22: when stopBot, called alone, awaited a stop() that failed for P, P is
\* still in the running set and the handle map still holds the same handle for P
\* at the return, and the result for P is 'Failed to stop P bot: <reason>'; and
\* a startBot(P) called alone afterwards, while that handle is still there,
\* answers 'Bot for P is already running' and starts no handle.
C22_FailedStopKeepsBot ==
    \A t \in Slots :
        /\ ( Done(t) /\ tasks[t].kind = "stopBot" /\ Alone(t) ) =>
                \A k \in 1..Len(tasks[t].hist) :
                    ~tasks[t].hist[k].ok =>
                        LET plat == tasks[t].hist[k].plat
                        IN  /\ SetHas(runningBots, plat)
                            /\ MapHas(botInstances, plat)
                            /\ MapGet(botInstances, plat) = MapGet(tasks[t].snap.instances, plat)
                            /\ handles[MapGet(botInstances, plat)].started
                            /\ \E j \in 1..Len(tasks[t].platforms) :
                                    /\ tasks[t].platforms[j] = plat
                                    /\ \E reason \in Reasons :
                                            tasks[t].results[j] = FailedStopMsg(plat, reason)
        /\ ( Done(t) /\ tasks[t].kind = "startBot" /\ Alone(t) ) =>
                \A j \in 1..Len(tasks[t].platforms) :
                    StopFailedOn(tasks[t].snap, tasks[t].platforms[j]) =>
                        /\ tasks[t].results[j] = AlreadyRunningMsg(tasks[t].platforms[j])
                        /\ MapGet(botInstances, tasks[t].platforms[j])
                                = MapGet(tasks[t].snap.instances, tasks[t].platforms[j])
                        /\ \A h \in DOMAIN handles :
                                handles[h].platform = tasks[t].platforms[j] =>
                                    /\ h = MapGet(botInstances, tasks[t].platforms[j])
                                    /\ handles[h] = tasks[t].snap.handles[h]

\* stopBot("telegram") has just failed: telegram is still running, on the handle
\* whose stop() rejected
C22_Witness ==
    \E t \in Slots :
        /\ Done(t)
        /\ tasks[t].kind = "stopBot"
        /\ Alone(t)
        /\ tasks[t].platforms = <<"telegram">>
        /\ tasks[t].hist = << [ op |-> "stop", plat |-> "telegram", ok |-> FALSE ] >>
        /\ tasks[t].results = << FailedStopMsg("telegram", "ECONNRESET") >>
        /\ runningBots = <<"telegram">>
        /\ handles[MapGet(botInstances, "telegram")].stopFailures = 1

\* C23: stop() is called at most once on any handle, and no two calls await
\* stop() on the same handle at the same time.
C23_AsStated ==
    /\ \A h \in DOMAIN handles : handles[h].stops <= 1
    /\ \A t, u \in Slots :
            ( t # u /\ tasks[t].pc = "botStop" /\ tasks[u].pc = "botStop" )
                => tasks[t].bot # tasks[u].bot

\* shutdown called by t has returned, or is about to
ShutdownReturned(t) ==
    LET task == tasks[t]
        n == Len(task.platforms)
    IN
    IF n = 0
    THEN \* nothing was running: the no-op result, and nothing changed
         /\ task.results = << NoBotsMsg >>
         /\ runningBots = <<>>
         /\ Alone(t) => StateAsCalled(t)
    ELSE \* one result per platform of the running set as it was at the call
         /\ Len(task.results) = n
         /\ \A j \in 1..n : MsgPlatform(task.results[j]) = task.platforms[j]
         \* called alone, it awaited stop() on the handle of every one of them
         /\ Alone(t) =>
                /\ task.platforms = task.snap.running
                /\ Len(task.hist) = n
                /\ \A j \in 1..n : /\ task.hist[j].op = "stop"
                                   /\ task.hist[j].plat = task.platforms[j]
         \* no stop failed and no start overlapped: nothing is left running
         /\ ( /\ task.olap < 2
              /\ \A j \in 1..n : task.results[j] \in { StoppedMsg(task.platforms[j]),
                                                       NoRunningMsg(task.platforms[j]) } )
            => /\ runningBots = <<>>
               /\ botInstances = <<>>

\* the step in which t calls shutdown
ShutdownCalled(t) ==
    /\ tasks'[t].platforms = runningBots
    /\ tasks'[t].pc = IF runningBots = <<>> THEN "done" ELSE "stopLoop"
    /\ UNCHANGED <<runningBots, botInstances, handles>>

\* C6: shutdown() with an empty running set returns 'No running bots to shut down'
\* and changes nothing; otherwise it calls stopBot on the platforms of the running
\* set as it is at the call, and when none of its stops fails and no start or restart
\* overlaps it, the running set and the handle map are empty when it returns.
C6_Shutdown ==
    /\ [](\A t \in Slots : ( Done(t) /\ tasks[t].kind = "shutdown" ) => ShutdownReturned(t))
    /\ [][\A t \in Slots : ( tasks[t].pc = "idle" /\ tasks'[t].kind = "shutdown" )
                                => ShutdownCalled(t)]_vars

\* a shutdown of two platforms overlapped by a stop of the second, which the other
\* call has removed by the time shutdown reaches it
C6_Witness ==
    \E t \in Slots :
        /\ Done(t)
        /\ tasks[t].kind = "shutdown"
        /\ tasks[t].olap = 1
        /\ tasks[t].platforms = <<"discord", "telegram">>
        /\ tasks[t].results = << StoppedMsg("discord"), NoRunningMsg("telegram") >>
        /\ runningBots = <<>>

(***************************************************************************)
(* Properties of the platform executor                                     *)
(***************************************************************************)
\* the step of execute an effect belongs to: 1 action, 2 page display, 3 command
Stage(e) ==
    CASE e.kind = "action" -> 1
      [] e.kind \in { "onEnter", "content", "button" } -> 2
      [] e.kind = "command" -> 3
      [] OTHER -> 0

AllThree(button) ==
    Truthy(button.action) /\ Truthy(button.nextPage) /\ Truthy(button.command)

HasEntry(kind, phase) == \E i \in 1..Len(log) : log[i] = [ kind |-> kind, text |-> << phase >> ]

\* the line the command step writes, piece by piece
DispatchLine(platform, button) ==
    [ kind |-> "command",
      text |-> << "[", platform, "] Executing command: ", button.command[1] >> ]

\* C7: an execute call on a button with action, nextPage and command all set
\* produces its effects in step order: the action is called and has returned
\* before anything of the page display appears, the page display (onEnter
\* called and returned, content line, button lines) is complete before the
\* command line appears, and the command line is the last effect; when the
\* call has returned after showing a page, all three effects are in the log.
C7_ExecuteInOrder ==
    (ex.pc # "idle" /\ AllThree(ex.button)) =>
        /\ \A i, j \in 1..Len(log) : i < j => Stage(log[i]) <= Stage(log[j])
        /\ (\E i \in 1..Len(log) : Stage(log[i]) >= 2) =>
                /\ Len(log) > 2
                /\ log[1] = [ kind |-> "action", text |-> << "call" >> ]
                /\ log[2] = [ kind |-> "action", text |-> << "return" >> ]
        /\ (\E i \in 1..Len(log) : Stage(log[i]) = 3) =>
                /\ ex.pc = "done"
                /\ \A i \in 1..Len(log) : Stage(log[i]) = 3 => i = Len(log)
                /\ HasEntry("onEnter", "call") => HasEntry("onEnter", "return")
                /\ ~HasEntry("onEnter", "throw")
        /\ (ex.pc = "done" /\ ex.nav = "show") =>
                /\ \E i \in 1..Len(log) : log[i].kind = "content"
                /\ log[Len(log)] = DispatchLine(ex.platform, ex.button)

\* an execute call with all three set has returned after showing a page with an
\* onEnter hook and a button
C7_Witness ==
    /\ ex.pc = "done"
    /\ AllThree(ex.button)
    /\ ex.nav = "show"
    /\ HasEntry("onEnter", "return")
    /\ \E i \in 1..Len(log) : log[i].kind = "button"
    /\ log[Len(log)].kind = "command"

\* the button's nextPage names no page of the table
Dangling(button, table) ==
    /\ Truthy(button.nextPage)
    /\ \A i \in 1..Len(table) : table[i].key # button.nextPage[1]

\* the step in which execute reaches its navigation step: a call on a button
\* without action, or the return of the awaited action
Navigating ==
    /\ ex' # ex
    /\ \/ ex.pc \in { "idle", "done", "failed" } /\ ex'.pc # "action"
       \/ ex.pc = "action" /\ ex'.pc # "failed"

\* what a call that shows no page has done when it returns
EffectsWithoutPage(platform, button) ==
    (IF Truthy(button.action)
     THEN << [ kind |-> "action", text |-> << "call" >> ],
             [ kind |-> "action", text |-> << "return" >> ] >>
     ELSE <<>>)
    \o (IF Truthy(button.command) THEN << DispatchLine(platform, button) >> ELSE <<>>)

\* C8: when execute reaches its navigation step and the button's nextPage names
\* no page of the page table, the call returns without an error, and all it has
\* done is the button's action (if set) and the command line (if a command is
\* set): no onEnter of any page is called and no page line is written.
C8_DanglingNextPage ==
    [][ (Navigating /\ Dangling(ex'.button, pages)) =>
            /\ ex'.pc = "done"
            /\ log' = EffectsWithoutPage(ex'.platform, ex'.button) ]_vars

\* a call with action and command set and a dangling nextPage has returned,
\* while the table holds a page with an onEnter hook
C8_Witness ==
    /\ ex.pc = "done"
    /\ AllThree(ex.button)
    /\ ex.button.nextPage = Some("gone")
    /\ Len(pages) > 0
    /\ Truthy(pages[1].val.onEnter)
    /\ Len(log) = 3

\* the positions of the page's buttons whose platforms contain the platform
Visible(page, platform) ==
    { i \in 1..Len(page.buttons) :
        \E p \in 1..Len(page.buttons[i].platforms) : page.buttons[i].platforms[p] = platform }

\* the n-th smallest position of a set of positions
NthOf(positions, n) ==
    CHOOSE i \in positions : Cardinality({ j \in positions : j <= i }) = n

ButtonEntries == SelectSeq(log', LAMBDA e : e.kind = "button")

\* the step in which showPage writes a page, and the page it writes
Displaying == ex.pc # "showPage" /\ ex'.pc = "showPage"

Displayed == IF ex.pc = "onEnter" THEN ex.page ELSE MapGet(pages, ex'.button.nextPage[1])

\* C9: when a page is displayed to platform P, the button lines written are
\* exactly one per button of the page whose platforms contain P, in the order
\* the buttons have in the page, and the n-th line carries the number n and the
\* text of the n-th such button; they follow the content line as the last
\* lines written.
C9_ShowPageButtons ==
    [][ Displaying =>
            LET visible == Visible(Displayed, ex'.platform)
                k == Cardinality(visible)
                first == Len(log') - k
            IN  /\ Len(ButtonEntries) = k
                /\ first >= 1
                /\ log'[first].kind = "content"
                /\ \A n \in 1..k :
                        /\ log'[first + n].kind = "button"
                        /\ log'[first + n].text[1] = << "1", "2", "3", "4", "5" >>[n]
                        /\ log'[first + n].text[3] =
                                Displayed.buttons[NthOf(visible, n)].text ]_vars

\* the page <<Pin, Kick>> has been displayed to discord: Pin is hidden and Kick
\* is line 1
C9_Witness ==
    /\ ex.pc = "showPage"
    /\ ex.platform = "discord"
    /\ Len(pages) = 1
    /\ Len(pages[1].val.buttons) = 2
    /\ pages[1].val.buttons[1].text = "Pin"
    /\ pages[1].val.buttons[2].text = "Kick"
    /\ log = << [ kind |-> "content", text |-> << "[", "DISCORD", "] ", "Welcome" >> ],
                [ kind |-> "button", text |-> << "1", ". ", "Kick" >> ] >>

(***************************************************************************)
(* Properties of the button builder                                        *)
(***************************************************************************)
\* the methods among action, to, command that have been called on the builder
EffectsSet == builder.called \cap { "action", "to", "command" }

\* at least one of action, nextPage, command holds a non-empty value
SomeEffect(button) ==
    \/ button.action # <<>>
    \/ button.nextPage # <<>> /\ button.nextPage # << "" >>
    \/ button.command # <<>> /\ button.command # << "" >>

\* C10 as stated: build() throws exactly when none of action, to and command
\* has been called on the builder, and a button that build() has returned has
\* had at least one of them called.
C10_AsStated ==
    /\ lastCall.op = "build" => (lastCall.outcome = "throw" <=> EffectsSet = {})
    /\ builder.built => EffectsSet # {}

\* C10: build() throws exactly when none of action, nextPage and command holds
\* a non-empty value (a field never set, or set to the empty string, counts as
\* absent), and otherwise returns the button; hence a button has at least one
\* of them non-empty at the moment build() returns it.
C10_BuildRequiresEffect ==
    lastCall.op = "build" =>
        /\ lastCall.outcome = "throw" <=> ~SomeEffect(builder.button)
        /\ lastCall.outcome = "return" => (builder.built /\ SomeEffect(builder.button))

\* build() has thrown on a builder whose to() and command() were called with
\* empty strings
C10_Witness ==
    /\ lastCall = [ op |-> "build", outcome |-> "throw" ]
    /\ EffectsSet = { "to", "command" }
    /\ builder.button.nextPage = << "" >>
    /\ builder.button.command = << "" >>

(***************************************************************************)
(* Properties of the page builder                                          *)
(***************************************************************************)
\* every name page.get can be asked for
PageKeys == { "", "home", "help", "gone" }

\* the table has one entry per name
OneEntryPerName ==
    \A i, j \in 1..Len(pages) : pages[i].key = pages[j].key => i = j

\* C11: the page table starts empty and has one entry per name; a build() on a
\* builder whose name is missing or empty throws and leaves every page.get(n)
\* as it was; a build() on a builder named m returns, makes page.get(m) that
\* builder's page and leaves page.get(n) as it was for every other n; no other
\* builder call changes which page a name is bound to.  Hence page.get(n) is
\* always the page of the most recent successful build() whose name is n.
C11_PageTableLastWins ==
    /\ [](OneEntryPerName /\ \A n \in PageKeys : MapHas(pages, n) => Truthy(Some(n)))
    /\ [][ IF lastPage'.op = "build"
           THEN LET b == lastPage'.builder
                    name == pobjs[b].name
                IN  IF name = <<>> \/ name = << "" >>
                    THEN /\ lastPage'.outcome = "throw"
                         /\ \A n \in PageKeys : MapGet(pages', n) = MapGet(pages, n)
                    ELSE /\ lastPage'.outcome = "return"
                         /\ MapGet(pages', name[1]) = [ ref |-> b ]
                         /\ \A n \in PageKeys \ { name[1] } :
                                MapGet(pages', n) = MapGet(pages, n)
           ELSE \A n \in PageKeys : MapGet(pages', n) = MapGet(pages, n) ]_vars

\* both builders are named "home", the second one's build() has just returned
\* and page.get("home") is its page, with the content only it was given
C11_Witness ==
    /\ lastPage = [ op |-> "build", builder |-> 2, outcome |-> "return" ]
    /\ pobjs[1] # Undefined
    /\ pobjs[1].name = << "home" >>
    /\ pobjs[1].content = << "Welcome" >>
    /\ pobjs[2].content = << "Bye" >>
    /\ Len(pages) = 1
    /\ getPage("home").content = << "Bye" >>

\* C19 as stated: once a page is in the table, only a build() changes what
\* page.get of its name returns and what a display of it shows: the builder's
\* content, addButton, onEnter and onLeave calls leave both as they were.
C19_AsStated ==
    [][ lastPage'.op # "build" =>
            \A n \in PageKeys :
                MapHas(pages, n) =>
                    /\ Deref(pobjs', MapGet(pages', n)) = Deref(pobjs, MapGet(pages, n))
                    /\ Interpolated(Deref(pobjs', MapGet(pages', n)).content)
                            = Interpolated(Deref(pobjs, MapGet(pages, n)).content) ]_vars

(***************************************************************************)
(* Properties of the button builder's platforms                            *)
(***************************************************************************)
\* the elements of a list
ListSet(list) == { list[i] : i \in 1..Len(list) }

\* C12 as stated: a button created without platform arguments has exactly the
\* configured platforms as its platforms, so that on a displayed page it is
\* among the buttons shown for every configured platform; a button created
\* with platform arguments has exactly those.
C12_AsStated ==
    builder.button # Undefined =>
        IF builder.args = <<>>
        THEN /\ ListSet(builder.button.platforms) = ListSet(configPlatforms)
             /\ \A P \in ListSet(configPlatforms) :
                    platformButtons([ buttons |-> << builder.button >> ], P)
                        = << builder.button >>
        ELSE builder.button.platforms = builder.args

(***************************************************************************)
(* Properties of sendMessage                                               *)
(***************************************************************************)
\* the reply target that the documentation of options.reply describes
DocumentedTarget(reply, replyToMessageId) ==
    IF reply = None THEN None
    ELSE IF reply[1] = JsBool(TRUE) \/ reply[1] = JsNum(<< "1" >>) THEN replyToMessageId
    ELSE IF reply[1] = JsBool(FALSE) \/ reply[1] = JsNum(<< "0" >>) THEN None
    ELSE reply

\* C20: every sendToPlatform call of a sendMessage call that gives reply (and no
\* platform-specific reply target) is passed the reply target the documentation
\* of reply states: the supplied replyToMessageId (if any) for true or 1, none
\* for false or 0, and the value itself for any other string or number.
C20_AsStated ==
    \A k \in 1..Len(sendCall.sent) :
        ( /\ sendCall.options.reply # None
          /\ sendCall.options.platformSpecific = None )
        => sendCall.sent[k].options.replyToMessageId
                = DocumentedTarget(sendCall.options.reply, sendCall.options.replyToMessageId)

(***************************************************************************)
(* Specifications                                                          *)
(***************************************************************************)
\* the command registry alone; the other components are at rest
InitRegistry ==
    /\ commands = <<>>
    /\ registered = <<>>
    /\ enabled = Platforms
    /\ botInstances = <<>>
    /\ runningBots = <<>>
    /\ handles = NoHandles
    /\ tasks = [ t \in Slots |-> IdleTask ]
    /\ cpu = 0
    /\ pages = <<>>
    /\ ex = IdleExec
    /\ log = <<>>
    /\ builder = NoBuilder
    /\ lastCall = NoCall
    /\ pobjs = [ b \in PageBuilderIds |-> Undefined ]
    /\ lastPage = NoPageCall
    /\ helpOut = NoHelp
    /\ sendCall = NoMessage
    /\ configPlatforms = <<"telegram", "discord">>

SpecRegistry == InitRegistry /\ [][RegNext]_vars

\* commands are registered and help is asked for at any time
InitHelp ==
    /\ commands = <<>>
    /\ registered = <<>>
    /\ enabled = Platforms
    /\ botInstances = <<>>
    /\ runningBots = <<>>
    /\ handles = NoHandles
    /\ tasks = [ t \in Slots |-> IdleTask ]
    /\ cpu = 0
    /\ pages = <<>>
    /\ ex = IdleExec
    /\ log = <<>>
    /\ builder = NoBuilder
    /\ lastCall = NoCall
    /\ pobjs = [ b \in PageBuilderIds |-> Undefined ]
    /\ lastPage = NoPageCall
    /\ helpOut = NoHelp
    /\ sendCall = NoMessage
    /\ configPlatforms = <<"telegram", "discord">>

SpecHelp == InitHelp /\ [][HelpNext]_vars

\* the lifecycle manager, under either configuration, with two concurrent callers
InitBots ==
    /\ commands = <<>>
    /\ registered = <<>>
    /\ enabled \in EnabledChoices
    /\ botInstances = <<>>
    /\ runningBots = <<>>
    /\ handles = NoHandles
    /\ tasks = [ t \in Slots |-> IdleTask ]
    /\ cpu = 0
    /\ pages = <<>>
    /\ ex = IdleExec
    /\ log = <<>>
    /\ builder = NoBuilder
    /\ lastCall = NoCall
    /\ pobjs = [ b \in PageBuilderIds |-> Undefined ]
    /\ lastPage = NoPageCall
    /\ helpOut = NoHelp
    /\ sendCall = NoMessage
    /\ configPlatforms = <<"telegram", "discord">>

SpecBots == InitBots /\ [][BotNext]_vars

\* the page table and the executor: pages are published while execute is suspended
InitExec ==
    /\ commands = <<>>
    /\ registered = <<>>
    /\ enabled = Platforms
    /\ botInstances = <<>>
    /\ runningBots = <<>>
    /\ handles = NoHandles
    /\ tasks = [ t \in Slots |-> IdleTask ]
    /\ cpu = 0
    /\ pages = <<>>
    /\ ex = IdleExec
    /\ log = <<>>
    /\ builder = NoBuilder
    /\ lastCall = NoCall
    /\ pobjs = [ b \in PageBuilderIds |-> Undefined ]
    /\ lastPage = NoPageCall
    /\ helpOut = NoHelp
    /\ sendCall = NoMessage
    /\ configPlatforms = <<"telegram", "discord">>

SpecExec == InitExec /\ [][ExecNext]_vars

\* one button builder, its methods called in any order
InitBuilder ==
    /\ commands = <<>>
    /\ registered = <<>>
    /\ enabled = Platforms
    /\ botInstances = <<>>
    /\ runningBots = <<>>
    /\ handles = NoHandles
    /\ tasks = [ t \in Slots |-> IdleTask ]
    /\ cpu = 0
    /\ pages = <<>>
    /\ ex = IdleExec
    /\ log = <<>>
    /\ builder = NoBuilder
    /\ lastCall = NoCall
    /\ pobjs = [ b \in PageBuilderIds |-> Undefined ]
    /\ lastPage = NoPageCall
    /\ helpOut = NoHelp
    /\ sendCall = NoMessage
    /\ configPlatforms \in ConfigPlatformLists

SpecBuilder == InitBuilder /\ [][BuilderNext]_vars

\* page builders that are used again after build()
InitPages ==
    /\ commands = <<>>
    /\ registered = <<>>
    /\ enabled = Platforms
    /\ botInstances = <<>>
    /\ runningBots = <<>>
    /\ handles = NoHandles
    /\ tasks = [ t \in Slots |-> IdleTask ]
    /\ cpu = 0
    /\ pages = <<>>
    /\ ex = IdleExec
    /\ log = <<>>
    /\ builder = NoBuilder
    /\ lastCall = NoCall
    /\ pobjs = [ b \in PageBuilderIds |-> Undefined ]
    /\ lastPage = NoPageCall
    /\ helpOut = NoHelp
    /\ sendCall = NoMessage
    /\ configPlatforms = <<"telegram", "discord">>

SpecPages == InitPages /\ [][PagesNext]_vars

InitMessage ==
    /\ commands = <<>>
    /\ registered = <<>>
    /\ enabled = Platforms
    /\ botInstances = <<>>
    /\ runningBots = <<>>
    /\ handles = NoHandles
    /\ tasks = [ t \in Slots |-> IdleTask ]
    /\ cpu = 0
    /\ pages = <<>>
    /\ ex = IdleExec
    /\ log = <<>>
    /\ builder = NoBuilder
    /\ lastCall = NoCall
    /\ pobjs = [ b \in PageBuilderIds |-> Undefined ]
    /\ lastPage = NoPageCall
    /\ helpOut = NoHelp
    /\ sendCall = NoMessage
    /\ configPlatforms = <<"telegram", "discord">>

SpecMessage == InitMessage /\ [][MessageNext]_vars

=============================================================================
